---- MODULE Spec2Model ----
(***************************************************************************)
(* Model of tools/codex_godot_process_manager.py: CodexGodotProcessManager, *)
(* the managed session around one headless child process, its two reader   *)
(* threads, its heartbeat monitor thread and the caller's thread.           *)
(*                                                                         *)
(* Optional values (Python's None) are sets: {} is None, {v} is v.          *)
(* Time is kept relative: idle is time.monotonic() - _last_activity, and a   *)
(* monitor's timer is the time left of its wait; both saturate, so that a   *)
(* behaviour can run forever in a finite state space.  The wall-clock       *)
(* "timestamp" field of a diagnostic is not modelled.                       *)
(***************************************************************************)
EXTENDS Integers, Sequences, FiniteSets, TLC

\* ------------------------------------------------------------------ bounds
MaxStarts == 2        \* children spawned over the life of the session object
MaxSends == 3         \* send_command calls by the caller (handshakes not counted)
MaxLines == 3         \* stdout lines one child writes
MaxErrLines == 1      \* stderr lines one child writes
MaxIdle == 3          \* saturation of the relative clocks
MaxHeartbeats == 2    \* heartbeat diagnostics recorded
MaxReturnCode == 2    \* largest return code of a manifest worker, and largest signal number

Gens == 1..MaxStarts

\* caller-supplied id_override values tried by the model
OverrideIds == {-1, 0, 4}

\* heartbeat_interval / heartbeat_timeout values given to the constructor
HeartbeatArgs == {{}, {0}, {1}, {2}}

Max(a, b) == IF a >= b THEN a ELSE b
Min(a, b) == IF a <= b THEN a ELSE b

\* Optional helpers
None == {}
Some(v) == {v}
The(o) == CHOOSE v \in o : TRUE
\* Python truthiness of an Optional[float]: None and 0 are falsy
Truthy(o) == o # None /\ The(o) # 0

\* ------------------------------------------------------- lines and decoding
\* A raw line is a sequence of characters; a JSON text is one atomic character.
Whitespace == {" ", "\t", "\r", "\n"}

J_banner == "{\"id\":0,\"result\":{\"ok\":true}}"
J_bannerStr == "{\"id\":0,\"result\":\"hi\"}"
J_ping == "{\"id\":5,\"method\":\"ping\",\"params\":{}}"
J_note == "{\"type\":\"note\"}"
J_list == "[1]"
J_bannerBare == "{\"id\":0}"
J_summary == "{\"type\":\"eventbus_replay_summary\"}"
NotJson == "not-json"

BannerLine == <<J_banner, "\n">>
BannerStrLine == <<J_bannerStr, "\n">>
BannerBareLine == <<J_bannerBare, "\n">>
SummaryLine == <<J_summary, "\n">>
PingLine == <<J_ping, "\r", "\n">>
NoteLine == <<J_note, "\n">>
ListLine == <<J_list, "\n">>
BadLine == <<NotJson, "\n">>
BlankLine == <<" ", "\n">>

Lines == {BannerLine, BannerStrLine, BannerBareLine, PingLine, NoteLine, ListLine, BadLine, BlankLine}

\* str.rstrip("\n")
RECURSIVE RStripNewline(_)
RStripNewline(s) ==
    IF s # <<>> /\ s[Len(s)] = "\n" THEN RStripNewline(SubSeq(s, 1, Len(s) - 1)) ELSE s

RECURSIVE LStrip(_)
LStrip(s) == IF s # <<>> /\ s[1] \in Whitespace THEN LStrip(Tail(s)) ELSE s

RECURSIVE RStrip(_)
RStrip(s) ==
    IF s # <<>> /\ s[Len(s)] \in Whitespace THEN RStrip(SubSeq(s, 1, Len(s) - 1)) ELSE s

\* str.strip()
Strip(s) == RStrip(LStrip(s))

\* JSON values that occur as "result"
JDict(repr) == [t |-> "dict", repr |-> repr]
JStr(repr) == [t |-> "str", repr |-> repr]
JNull == [t |-> "null", repr |-> "null"]

\* json.loads on a stripped line: the decoded value, or a JSONDecodeError.
\* A decoded value records its type, its "id" and "result" members (absent: None)
\* and its text.
JsonLoads(s) ==
    IF Len(s) # 1 THEN [t |-> "JSONDecodeError", id |-> None, result |-> None, repr |-> ""]
    ELSE CASE s[1] = J_banner ->
                [t |-> "dict", id |-> Some(0), result |-> Some(JDict("{\"ok\":true}")), repr |-> s[1]]
           [] s[1] = J_bannerStr ->
                [t |-> "dict", id |-> Some(0), result |-> Some(JStr("\"hi\"")), repr |-> s[1]]
           [] s[1] = J_bannerBare ->
                [t |-> "dict", id |-> Some(0), result |-> None, repr |-> s[1]]
           [] s[1] = J_ping ->
                [t |-> "dict", id |-> Some(5), result |-> None, repr |-> s[1]]
           [] s[1] = J_summary ->
                [t |-> "dict", id |-> None, result |-> None, repr |-> s[1]]
           [] s[1] = J_note ->
                [t |-> "dict", id |-> None, result |-> None, repr |-> s[1]]
           [] s[1] = J_list ->
                [t |-> "list", id |-> None, result |-> None, repr |-> s[1]]
           [] OTHER ->
                [t |-> "JSONDecodeError", id |-> None, result |-> None, repr |-> ""]

\* dict.get(key): None when the key is absent
GetResult(message) == IF message.result = None THEN JNull ELSE The(message.result)

\* the result of the handshake response cached as it came
BannerOfRaw(message) == GetResult(message)

\* the banner cached for a handshake response
BannerOf(message) ==
    LET banner_payload == GetResult(message)
    IN IF banner_payload.t = "dict" THEN banner_payload
       ELSE [t |-> "dict", repr |-> "{\"message\":" \o banner_payload.repr \o "}"]

\* diagnostics put on the stderr queue
ProtocolDiagnostic(stripped) ==
    [stream |-> "stdout", text |-> stripped, level |-> "protocol", elapsed |-> 0]
StderrDiagnostic(raw_line) ==
    [stream |-> "stderr", text |-> RStripNewline(raw_line), level |-> "error", elapsed |-> 0]
HeartbeatDiagnostic(elapsed) ==
    [stream |-> "heartbeat", text |-> <<"No stdout messages">>, level |-> "warning",
     elapsed |-> elapsed]

ErrLine == <<"boom", "\n">>

\* ------------------------------------------------------------------- state
VARIABLES
    \* the session object
    process,            \* Optional generation of the child whose Popen handle is held
    stop_event,         \* _stop_event
    stdout_queue,       \* _stdout_queue: Optional lines, None the sentinel
    stderr_queue,       \* _stderr_queue: Optional diagnostics, None the sentinel
    id_counter,         \* _id_counter
    banner_request_id,  \* _banner_request_id
    banner,             \* _banner
    idle,               \* time.monotonic() - _last_activity
    heartbeat_interval,
    heartbeat_timeout,
    \* children and their pipes, by generation
    gen,                \* children spawned so far
    child,              \* "none", "alive", "exited"
    stdin_closed,       \* process.stdin.closed, of the Popen object held
    signals,            \* signals sent through the Popen object held
    out_pipe, out_eof,  \* unread stdout lines; write end closed
    err_pipe, err_eof,
    err_written,        \* number of stderr lines each child wrote
    \* background threads, by generation
    out_reader,         \* "none", "running", "done"
    err_reader,
    monitor,            \* [pc, timer, elapsed] of _heartbeat_monitor
    \* the caller's thread
    pc,                 \* where the caller is inside start() or stop(); "idle" between calls
    last_call,          \* the last call that returned or raised, and how
    iter,               \* the generator of iter_messages
    caller_elapsed,     \* elapsed read by the caller inside _maybe_emit_heartbeat_timeout
    \* the thread that collects diagnostics
    diag,               \* the generator of iter_stderr_diagnostics and what it has yielded
    \* history
    sent,               \* requests written to a child's stdin
    written,            \* every stdout line each child wrote
    taken,              \* entries taken from the stdout queue by iter_messages
    yielded,            \* messages yielded by iter_messages
    hb_count,           \* heartbeat diagnostics put so far
    hb_min_gap,         \* least time between two heartbeat diagnostics put one after the other
    since_hb,           \* time since the last heartbeat diagnostic was put
    \* the manifest runner (codex_run_manifest_tests.py)
    manifest            \* _execute_attempt: where it is, its groups, their return codes
                        \* so far and aggregated_exit_code

sessionVars == <<process, stop_event, stdout_queue, stderr_queue, id_counter,
                 banner_request_id, banner, idle, heartbeat_interval, heartbeat_timeout>>
childVars == <<gen, child, stdin_closed, signals, out_pipe, out_eof, err_pipe, err_eof,
               err_written>>
threadVars == <<out_reader, err_reader, monitor>>
callerVars == <<pc, last_call, iter, caller_elapsed>>
historyVars == <<sent, written, taken, yielded, hb_count, hb_min_gap, since_hb, manifest>>
vars == <<sessionVars, childVars, threadVars, callerVars, diag, historyVars>>

MonitorNone == [pc |-> "none", timer |-> 0, elapsed |-> 0]
\* gen and first are history: the child held when the generator was started and
\* the number of messages yielded before it
IterNone == [state |-> "none", timeout |-> None, gen |-> 0, first |-> 0]
DiagNone == [state |-> "none", yielded |-> <<>>]
\* no attempt of the manifest runner has begun
ManifestNone == [pc |-> "none", groups_to_run |-> <<>>, exit_codes |-> <<>>,
                 aggregated_exit_code |-> 0]
CallNone == [op |-> "none", raised |-> "none"]

\* __init__ (lines 108-125) with the given heartbeat arguments
InitWith(interval, timeout) ==
    /\ process = None
    /\ stop_event = FALSE
    /\ stdout_queue = <<>>
    /\ stderr_queue = <<>>
    /\ id_counter = 1
    /\ banner_request_id = None
    /\ banner = None
    /\ idle = 0
    /\ heartbeat_interval = interval
    /\ heartbeat_timeout = IF timeout # None THEN timeout ELSE interval
    /\ gen = 0
    /\ child = [g \in Gens |-> "none"]
    /\ stdin_closed = FALSE
    /\ signals = {}
    /\ out_pipe = [g \in Gens |-> <<>>]
    /\ out_eof = [g \in Gens |-> FALSE]
    /\ err_pipe = [g \in Gens |-> <<>>]
    /\ err_eof = [g \in Gens |-> FALSE]
    /\ err_written = [g \in Gens |-> 0]
    /\ out_reader = [g \in Gens |-> "none"]
    /\ err_reader = [g \in Gens |-> "none"]
    /\ monitor = [g \in Gens |-> MonitorNone]
    /\ pc = "idle"
    /\ last_call = CallNone
    /\ iter = IterNone
    /\ caller_elapsed = 0
    /\ diag = DiagNone
    /\ sent = <<>>
    /\ written = [g \in Gens |-> <<>>]
    /\ taken = <<>>
    /\ yielded = <<>>
    /\ hb_count = 0
    /\ hb_min_gap = MaxIdle
    /\ since_hb = MaxIdle
    /\ manifest = ManifestNone

\* is_running without the poll of the child: true while a handle is held
is_running_held == process # None

\* is_running (lines 138-140)
is_running == process # None /\ child[The(process)] = "alive"

\* --------------------------------------------------------- the child process
\* The child is the environment: it writes lines, closes its stdout and exits
\* when it likes.  An exit closes the write ends of its pipes.
ChildWrite(g, line) ==
    /\ child[g] = "alive"
    /\ ~out_eof[g]
    /\ out_reader[g] # "done"
    /\ Len(written[g]) < MaxLines
    /\ out_pipe' = [out_pipe EXCEPT ![g] = Append(@, line)]
    /\ written' = [written EXCEPT ![g] = Append(@, line)]
    /\ UNCHANGED <<sessionVars, diag, gen, child, stdin_closed, signals, out_eof, err_pipe, err_eof,
                   err_written, threadVars, callerVars, sent, taken, yielded, hb_count, hb_min_gap, since_hb, manifest>>

ChildWriteErr(g) ==
    /\ child[g] = "alive"
    /\ ~err_eof[g]
    /\ err_reader[g] # "done"
    /\ err_written[g] < MaxErrLines
    /\ err_pipe' = [err_pipe EXCEPT ![g] = Append(@, ErrLine)]
    /\ err_written' = [err_written EXCEPT ![g] = @ + 1]
    /\ UNCHANGED <<sessionVars, diag, gen, child, stdin_closed, signals, out_pipe, out_eof, err_eof,
                   threadVars, callerVars, historyVars>>

ChildCloseStdout(g) ==
    /\ child[g] = "alive"
    /\ ~out_eof[g]
    /\ out_eof' = [out_eof EXCEPT ![g] = TRUE]
    /\ UNCHANGED <<sessionVars, diag, gen, child, stdin_closed, signals, out_pipe, err_pipe, err_eof,
                   err_written, threadVars, callerVars, historyVars>>

\* what the exit of child g does to the child's state
Exited(g) ==
    /\ child' = [child EXCEPT ![g] = "exited"]
    /\ out_eof' = [out_eof EXCEPT ![g] = TRUE]
    /\ err_eof' = [err_eof EXCEPT ![g] = TRUE]

\* an exit of the child that makes the session drop its handle
ChildExitReleases(g) ==
    /\ child[g] = "alive"
    /\ Exited(g)
    /\ process' = IF process = Some(g) THEN None ELSE process
    /\ UNCHANGED <<stop_event, stdout_queue, stderr_queue, id_counter, banner_request_id,
                   banner, idle, heartbeat_interval, heartbeat_timeout, diag, gen, stdin_closed,
                   signals, out_pipe, err_pipe, err_written, threadVars, callerVars,
                   historyVars>>

ChildExit(g) ==
    /\ child[g] = "alive"
    /\ Exited(g)
    /\ UNCHANGED <<sessionVars, diag, gen, stdin_closed, signals, out_pipe, err_pipe, err_written,
                   threadVars, callerVars, historyVars>>

\* ----------------------------------------------------------- _reader_thread
\* Lines 380-382 run as one step: the sentinel is put and the pipe closed, which
\* discards what was not read; the child can write to the pipe no more.

\* a reader of stdout that leaves on the stop signal without its sentinel
StdoutReadLineNoSentinel(g) ==
    /\ out_reader[g] = "running"
    /\ out_pipe[g] # <<>>
    /\ IF stop_event
       THEN /\ out_pipe' = [out_pipe EXCEPT ![g] = <<>>]
            /\ UNCHANGED stdout_queue
            /\ out_reader' = [out_reader EXCEPT ![g] = "done"]
       ELSE /\ out_pipe' = [out_pipe EXCEPT ![g] = Tail(@)]
            /\ stdout_queue' = Append(stdout_queue, Some(RStripNewline(Head(out_pipe[g]))))
            /\ UNCHANGED out_reader
    /\ UNCHANGED <<process, stop_event, stderr_queue, id_counter, banner_request_id, banner,
                   idle, heartbeat_interval, heartbeat_timeout, diag, gen, child, stdin_closed,
                   signals, out_eof, err_pipe, err_eof, err_written, err_reader, monitor,
                   callerVars, historyVars>>

\* _reader_thread(stdout, _stdout_queue, "stdout"), lines 364-382: one line read
StdoutReadLine(g) ==
    /\ out_reader[g] = "running"
    /\ out_pipe[g] # <<>>
    /\ IF stop_event
       THEN /\ out_pipe' = [out_pipe EXCEPT ![g] = <<>>]
            /\ stdout_queue' = Append(stdout_queue, None)
            /\ out_reader' = [out_reader EXCEPT ![g] = "done"]
       ELSE /\ out_pipe' = [out_pipe EXCEPT ![g] = Tail(@)]
            /\ stdout_queue' = Append(stdout_queue, Some(RStripNewline(Head(out_pipe[g]))))
            /\ UNCHANGED out_reader
    /\ UNCHANGED <<process, stop_event, stderr_queue, id_counter, banner_request_id, banner,
                   idle, heartbeat_interval, heartbeat_timeout, diag, gen, child, stdin_closed,
                   signals, out_eof, err_pipe, err_eof, err_written, err_reader, monitor,
                   callerVars, historyVars>>

\* readline returned "": the sentinel is put and the pipe closed
StdoutReadEof(g) ==
    /\ out_reader[g] = "running"
    /\ out_pipe[g] = <<>>
    /\ out_eof[g]
    /\ stdout_queue' = Append(stdout_queue, None)
    /\ out_reader' = [out_reader EXCEPT ![g] = "done"]
    /\ UNCHANGED <<process, stop_event, stderr_queue, id_counter, banner_request_id, banner,
                   idle, heartbeat_interval, heartbeat_timeout, diag, childVars, err_reader, monitor,
                   callerVars, historyVars>>

\* readline raised: the finally block still runs
StdoutReadError(g) ==
    /\ out_reader[g] = "running"
    /\ out_pipe' = [out_pipe EXCEPT ![g] = <<>>]
    /\ stdout_queue' = Append(stdout_queue, None)
    /\ out_reader' = [out_reader EXCEPT ![g] = "done"]
    /\ UNCHANGED <<process, stop_event, stderr_queue, id_counter, banner_request_id, banner,
                   idle, heartbeat_interval, heartbeat_timeout, diag, gen, child, stdin_closed,
                   signals, out_eof, err_pipe, err_eof, err_written, err_reader, monitor,
                   callerVars, historyVars>>

\* _reader_thread(stderr, _stderr_queue, "stderr")
StderrReadLine(g) ==
    /\ err_reader[g] = "running"
    /\ err_pipe[g] # <<>>
    /\ IF stop_event
       THEN /\ err_pipe' = [err_pipe EXCEPT ![g] = <<>>]
            /\ stderr_queue' = Append(stderr_queue, None)
            /\ err_reader' = [err_reader EXCEPT ![g] = "done"]
       ELSE /\ err_pipe' = [err_pipe EXCEPT ![g] = Tail(@)]
            /\ stderr_queue' = Append(stderr_queue, Some(StderrDiagnostic(Head(err_pipe[g]))))
            /\ UNCHANGED err_reader
    /\ UNCHANGED <<process, stop_event, stdout_queue, id_counter, banner_request_id, banner,
                   idle, heartbeat_interval, heartbeat_timeout, diag, gen, child, stdin_closed,
                   signals, out_pipe, out_eof, err_eof, err_written, out_reader, monitor,
                   callerVars, historyVars>>

StderrReadEof(g) ==
    /\ err_reader[g] = "running"
    /\ err_pipe[g] = <<>>
    /\ err_eof[g]
    /\ stderr_queue' = Append(stderr_queue, None)
    /\ err_reader' = [err_reader EXCEPT ![g] = "done"]
    /\ UNCHANGED <<process, stop_event, stdout_queue, id_counter, banner_request_id, banner,
                   idle, heartbeat_interval, heartbeat_timeout, diag, childVars, out_reader, monitor,
                   callerVars, historyVars>>

StderrReadError(g) ==
    /\ err_reader[g] = "running"
    /\ err_pipe' = [err_pipe EXCEPT ![g] = <<>>]
    /\ stderr_queue' = Append(stderr_queue, None)
    /\ err_reader' = [err_reader EXCEPT ![g] = "done"]
    /\ UNCHANGED <<process, stop_event, stdout_queue, id_counter, banner_request_id, banner,
                   idle, heartbeat_interval, heartbeat_timeout, diag, gen, child, stdin_closed,
                   signals, out_pipe, out_eof, err_eof, err_written, out_reader, monitor,
                   callerVars, historyVars>>

\* describe_session (lines 237-255): the snapshot, without the fields that never
\* change (session id, command, project root)
describe_session ==
    [pid |-> process, banner |-> banner, heartbeat_interval |-> heartbeat_interval,
     heartbeat_timeout |-> heartbeat_timeout]

\* ------------------------------------------------------------ send_command
BannerMethod == "codex.banner"

\* line 270: the identifier of the request
RequestId(id_override) == IF id_override # None THEN The(id_override) ELSE id_counter

\* the counter stepped by one whatever the identifier of the request
NextIdCounterStep(counter, request_id) == counter + 1

\* the counter set after the last identifier, also when that lowers it
NextIdCounterLast(counter, request_id) == request_id + 1

\* line 271: the counter after a request with identifier request_id
NextIdCounter(counter, request_id) == Max(counter, request_id + 1)

Request(request_id, id_override, method) ==
    [id |-> request_id, auto |-> id_override = None, gen |-> The(process), method |-> method]

UserSends == Len(SelectSeq(sent, LAMBDA r : r.method # BannerMethod))

Returned(op) == [op |-> op, raised |-> "none"]
Raised(op, error) == [op |-> op, raised |-> error]

\* send_command setting the stop signal when the write fails
SendBodyStopsOnFailure(id_override) ==
    /\ UserSends < MaxSends
    /\ IF ~is_running
       THEN /\ last_call' = Raised("send", "NotRunning")
            /\ UNCHANGED <<stop_event, id_counter, sent, child, out_eof, err_eof>>
       ELSE LET request_id == RequestId(id_override)
            IN /\ id_counter' = NextIdCounter(id_counter, request_id)
               /\ \/ /\ ~stdin_closed
                     /\ sent' = Append(sent, Request(request_id, id_override, "call"))
                     /\ last_call' = Returned("send")
                     /\ UNCHANGED <<stop_event, child, out_eof, err_eof>>
                  \/ /\ ~stdin_closed
                     /\ Exited(The(process))
                     /\ last_call' = Raised("send", "TransportWrite")
                     /\ stop_event' = TRUE
                     /\ UNCHANGED sent
                  \/ /\ stdin_closed
                     /\ last_call' = Raised("send", "TransportWrite")
                     /\ stop_event' = TRUE
                     /\ UNCHANGED <<sent, child, out_eof, err_eof>>
    /\ UNCHANGED <<process, stdout_queue, stderr_queue, banner_request_id, banner,
                   idle, heartbeat_interval, heartbeat_timeout, diag, gen, stdin_closed, signals,
                   out_pipe, err_pipe, err_written, threadVars, pc, iter, caller_elapsed,
                   written, taken, yielded, hb_count, hb_min_gap, since_hb, manifest>>

\* a send_command that takes its identifier before it tests is_running
SendBodyCountsFirst(id_override) ==
    /\ UserSends < MaxSends
    /\ LET request_id == RequestId(id_override)
       IN /\ id_counter' = NextIdCounter(id_counter, request_id)
          /\ IF ~is_running
             THEN /\ last_call' = Raised("send", "NotRunning")
                  /\ UNCHANGED <<sent, child, out_eof, err_eof>>
             ELSE \/ /\ ~stdin_closed
                     /\ sent' = Append(sent, Request(request_id, id_override, "call"))
                     /\ last_call' = Returned("send")
                     /\ UNCHANGED <<child, out_eof, err_eof>>
                  \/ /\ ~stdin_closed
                     /\ Exited(The(process))
                     /\ last_call' = Raised("send", "TransportWrite")
                     /\ UNCHANGED sent
                  \/ /\ stdin_closed
                     /\ last_call' = Raised("send", "TransportWrite")
                     /\ UNCHANGED <<sent, child, out_eof, err_eof>>
    /\ UNCHANGED <<process, stop_event, stdout_queue, stderr_queue, banner_request_id, banner,
                   idle, heartbeat_interval, heartbeat_timeout, diag, gen, stdin_closed, signals,
                   out_pipe, err_pipe, err_written, threadVars, pc, iter, caller_elapsed,
                   written, taken, yielded, hb_count, hb_min_gap, since_hb, manifest>>

\* send_command(method, params, id_override=...) called by the caller, lines 258-285.
\* The write fails when the child went away after the is_running test
\* (BrokenPipeError) or when the session has closed the stdin (ValueError); the
\* counter has been advanced by then.
SendBody(id_override) ==
    /\ UserSends < MaxSends
    /\ IF ~is_running
       THEN /\ last_call' = Raised("send", "NotRunning")
            /\ UNCHANGED <<id_counter, sent, child, out_eof, err_eof>>
       ELSE LET request_id == RequestId(id_override)
            IN /\ id_counter' = NextIdCounter(id_counter, request_id)
               /\ \/ /\ ~stdin_closed
                     /\ sent' = Append(sent, Request(request_id, id_override, "call"))
                     /\ last_call' = Returned("send")
                     /\ UNCHANGED <<child, out_eof, err_eof>>
                  \/ /\ ~stdin_closed
                     /\ Exited(The(process))
                     /\ last_call' = Raised("send", "TransportWrite")
                     /\ UNCHANGED sent
                  \/ /\ stdin_closed
                     /\ last_call' = Raised("send", "TransportWrite")
                     /\ UNCHANGED <<sent, child, out_eof, err_eof>>
    /\ UNCHANGED <<process, stop_event, stdout_queue, stderr_queue, banner_request_id, banner,
                   idle, heartbeat_interval, heartbeat_timeout, diag, gen, stdin_closed, signals,
                   out_pipe, err_pipe, err_written, threadVars, pc, iter, caller_elapsed,
                   written, taken, yielded, hb_count, hb_min_gap, since_hb, manifest>>

\* send_command called by the caller thread between its other calls
SendCommand(id_override) == pc = "idle" /\ SendBody(id_override)

\* send_command called by a second thread while the caller thread is in stop()
\* between the close of the stdin (line 218) and the is_running test of line 220;
\* the counter, which failed writes advance too, is capped
SendDuringStop(id_override) ==
    /\ pc = "stop_terminate"
    /\ id_counter <= MaxSends
    /\ SendBody(id_override)

\* describe_session() dropping the pending handshake id
DescribeSessionForgets ==
    /\ pc = "idle"
    /\ last_call' = Returned("describe")
    /\ banner_request_id' = None
    /\ UNCHANGED <<process, stop_event, stdout_queue, stderr_queue, id_counter, banner, idle,
                   heartbeat_interval, heartbeat_timeout, diag, childVars, threadVars, pc, iter,
                   caller_elapsed, historyVars>>

\* describe_session() called by the caller, lines 237-255
DescribeSession ==
    /\ pc = "idle"
    /\ last_call' = Returned("describe")
    /\ UNCHANGED <<sessionVars, diag, childVars, threadVars, pc, iter, caller_elapsed, historyVars>>

\* ------------------------------------------------------------------- start
\* start() without the test of lines 145-146: a second child is spawned
StartNoopRespawn ==
    /\ pc = "idle"
    /\ is_running
    /\ gen < MaxStarts
    /\ gen' = gen + 1
    /\ process' = Some(gen + 1)
    /\ child' = [child EXCEPT ![gen + 1] = "alive"]
    /\ pc' = "start_clear"
    /\ UNCHANGED <<stop_event, stdout_queue, stderr_queue, id_counter, banner_request_id,
                   banner, idle, heartbeat_interval, heartbeat_timeout, diag, stdin_closed, signals,
                   out_pipe, out_eof, err_pipe, err_eof, err_written, threadVars, last_call,
                   iter, caller_elapsed, historyVars>>

\* start() on a running session writing the handshake request again
StartNoopHandshake ==
    /\ pc = "idle"
    /\ is_running
    /\ sent' = Append(sent, Request(0, Some(0), BannerMethod))
    /\ banner_request_id' = Some(0)
    /\ last_call' = Returned("start")
    /\ UNCHANGED <<process, stop_event, stdout_queue, stderr_queue, id_counter, banner, idle,
                   heartbeat_interval, heartbeat_timeout, diag, childVars, threadVars, pc, iter,
                   caller_elapsed, written, taken, yielded, hb_count, hb_min_gap, since_hb, manifest>>

\* lines 145-146: start() on a running session returns at once
StartNoop ==
    /\ pc = "idle"
    /\ is_running
    /\ last_call' = Returned("start")
    /\ UNCHANGED <<sessionVars, diag, childVars, threadVars, pc, iter, caller_elapsed, historyVars>>

\* lines 148-172: subprocess.Popen
StartSpawn ==
    /\ pc = "idle"
    /\ ~is_running
    /\ gen < MaxStarts
    /\ gen' = gen + 1
    /\ process' = Some(gen + 1)
    /\ child' = [child EXCEPT ![gen + 1] = "alive"]
    /\ stdin_closed' = FALSE
    /\ signals' = {}
    /\ pc' = "start_clear"
    /\ UNCHANGED <<stop_event, stdout_queue, stderr_queue, id_counter, banner_request_id,
                   banner, idle, heartbeat_interval, heartbeat_timeout, diag,
                   out_pipe, out_eof, err_pipe, err_eof, err_written, threadVars, last_call,
                   iter, caller_elapsed, historyVars>>

\* line 174
StartClear ==
    /\ pc = "start_clear"
    /\ stop_event' = FALSE
    /\ pc' = "start_threads"
    /\ UNCHANGED <<process, stdout_queue, stderr_queue, id_counter, banner_request_id, banner,
                   idle, heartbeat_interval, heartbeat_timeout, diag, childVars, threadVars,
                   last_call, iter, caller_elapsed, historyVars>>

\* lines 175-186: the two reader threads
StartThreads ==
    /\ pc = "start_threads"
    /\ out_reader' = [out_reader EXCEPT ![The(process)] = "running"]
    /\ err_reader' = [err_reader EXCEPT ![The(process)] = "running"]
    /\ pc' = "start_handshake"
    /\ UNCHANGED <<sessionVars, diag, childVars, monitor, last_call, iter, caller_elapsed,
                   historyVars>>

\* lines 188-196: the handshake request, send_command(..., id_override=0); when it
\* raises, start() raises and the rest of start() is not run
StartHandshake ==
    /\ pc = "start_handshake"
    /\ IF ~is_running
       THEN /\ last_call' = Raised("start", "NotRunning")
            /\ pc' = "idle"
            /\ UNCHANGED <<id_counter, sent, banner_request_id, child, out_eof, err_eof>>
       ELSE LET request_id == RequestId(Some(0))
            IN /\ id_counter' = NextIdCounter(id_counter, request_id)
               /\ \/ /\ sent' = Append(sent, Request(request_id, Some(0), BannerMethod))
                     /\ banner_request_id' = Some(request_id)
                     /\ pc' = "start_heartbeat"
                     /\ UNCHANGED <<last_call, child, out_eof, err_eof>>
                  \/ /\ Exited(The(process))
                     /\ last_call' = Raised("start", "TransportWrite")
                     /\ pc' = "idle"
                     /\ UNCHANGED <<sent, banner_request_id>>
    /\ UNCHANGED <<process, stop_event, stdout_queue, stderr_queue, banner, idle,
                   heartbeat_interval, heartbeat_timeout, diag, gen, stdin_closed, signals,
                   out_pipe, err_pipe, err_written, threadVars, iter, caller_elapsed,
                   written, taken, yielded, hb_count, hb_min_gap, since_hb, manifest>>

\* start() returning without starting the heartbeat thread
StartHeartbeatNever ==
    /\ pc = "start_heartbeat"
    /\ pc' = "idle"
    /\ last_call' = Returned("start")
    /\ UNCHANGED <<sessionVars, diag, childVars, threadVars, iter, caller_elapsed, historyVars>>

\* lines 198-204: the heartbeat thread, when an interval is configured
StartHeartbeat ==
    /\ pc = "start_heartbeat"
    /\ monitor' = IF Truthy(heartbeat_interval)
                  THEN [monitor EXCEPT ![The(process)] =
                            [pc |-> "wait", timer |-> The(heartbeat_interval), elapsed |-> 0]]
                  ELSE monitor
    /\ pc' = "idle"
    /\ last_call' = Returned("start")
    /\ UNCHANGED <<sessionVars, diag, childVars, out_reader, err_reader, iter, caller_elapsed,
                   historyVars>>

\* -------------------------------------------------------------------- stop
\* lines 209-211
StopCall ==
    /\ pc = "idle"
    /\ stop_event' = TRUE
    /\ IF process = None
       THEN /\ last_call' = Returned("stop")
            /\ UNCHANGED pc
       ELSE /\ pc' = "stop_stdin"
            /\ UNCHANGED last_call
    /\ UNCHANGED <<process, stdout_queue, stderr_queue, id_counter, banner_request_id, banner,
                   idle, heartbeat_interval, heartbeat_timeout, diag, childVars, threadVars, iter,
                   caller_elapsed, historyVars>>

\* stop() going on to terminate() with the child's stdin left open
StopStdinSkipped ==
    /\ pc = "stop_stdin"
    /\ pc' = "stop_terminate"
    /\ UNCHANGED <<sessionVars, diag, childVars, threadVars, last_call, iter, caller_elapsed,
                   historyVars>>

\* lines 213-218: flush and close the child's stdin, errors ignored
StopStdin ==
    /\ pc = "stop_stdin"
    /\ stdin_closed' = TRUE
    /\ pc' = "stop_terminate"
    /\ UNCHANGED <<sessionVars, diag, gen, child, signals, out_pipe, out_eof, err_pipe, err_eof,
                   err_written, threadVars, last_call, iter, caller_elapsed, historyVars>>

\* lines 220-222: terminate() when the child is still running
StopTerminate ==
    /\ pc = "stop_terminate"
    /\ IF is_running
       THEN /\ signals' = signals \cup {"terminate"}
            /\ pc' = "stop_wait"
       ELSE /\ pc' = "stop_join_stdout"
            /\ UNCHANGED signals
    /\ UNCHANGED <<sessionVars, diag, gen, child, stdin_closed, out_pipe, out_eof, err_pipe, err_eof,
                   err_written, threadVars, last_call, iter, caller_elapsed, historyVars>>

\* line 223: wait(timeout=5) returns because the child exited
StopWaitExited ==
    /\ pc = "stop_wait"
    /\ child[The(process)] = "exited"
    /\ pc' = "stop_join_stdout"
    /\ UNCHANGED <<sessionVars, diag, childVars, threadVars, last_call, iter, caller_elapsed,
                   historyVars>>

\* a wait without timeout: stop() stays in wait() while the child lives
StopKillNever ==
    /\ pc = "stop_wait"
    /\ child[The(process)] = "alive"
    /\ UNCHANGED vars

\* lines 224-226: the wait timed out; kill() and wait again
StopKill ==
    /\ pc = "stop_wait"
    /\ child[The(process)] = "alive"
    /\ signals' = signals \cup {"kill"}
    /\ Exited(The(process))
    /\ pc' = "stop_join_stdout"
    /\ UNCHANGED <<sessionVars, diag, gen, stdin_closed, out_pipe, err_pipe, err_written,
                   threadVars, last_call, iter, caller_elapsed, historyVars>>

\* lines 228-233: each join returns when its thread has ended or after its timeout
StopJoin ==
    /\ pc \in {"stop_join_stdout", "stop_join_stderr", "stop_join_heartbeat"}
    /\ pc' = CASE pc = "stop_join_stdout" -> "stop_join_stderr"
               [] pc = "stop_join_stderr" -> "stop_join_heartbeat"
               [] pc = "stop_join_heartbeat" -> "stop_release"
    /\ UNCHANGED <<sessionVars, diag, childVars, threadVars, last_call, iter, caller_elapsed,
                   historyVars>>

\* stop() returning with the handle of the stopped child still held
StopReleaseKeep ==
    /\ pc = "stop_release"
    /\ pc' = "idle"
    /\ last_call' = Returned("stop")
    /\ UNCHANGED <<process, stop_event, stdout_queue, stderr_queue, id_counter,
                   banner_request_id, banner, idle, heartbeat_interval, heartbeat_timeout, diag,
                   childVars, threadVars, iter, caller_elapsed, historyVars>>

\* line 235
StopRelease ==
    /\ pc = "stop_release"
    /\ process' = None
    /\ pc' = "idle"
    /\ last_call' = Returned("stop")
    /\ UNCHANGED <<stop_event, stdout_queue, stderr_queue, id_counter, banner_request_id,
                   banner, idle, heartbeat_interval, heartbeat_timeout, diag, childVars, threadVars,
                   iter, caller_elapsed, historyVars>>

\* the check without its first test: due whenever the timeout is unset or zero
HeartbeatDueUnset(elapsed) ==
    ~Truthy(heartbeat_timeout) \/ ~(elapsed < The(heartbeat_timeout))

\* ----------------------------------------------- _maybe_emit_heartbeat_timeout
\* lines 392-396: whether the check goes on to publish a diagnostic, given the
\* elapsed time it read
HeartbeatDue(elapsed) == Truthy(heartbeat_timeout) /\ ~(elapsed < The(heartbeat_timeout))

\* lines 397-405: publish the diagnostic and reset _last_activity
EmitHeartbeat(elapsed) ==
    /\ hb_count < MaxHeartbeats
    /\ stderr_queue' = Append(stderr_queue, Some(HeartbeatDiagnostic(elapsed)))
    /\ idle' = 0
    /\ hb_count' = hb_count + 1
    /\ hb_min_gap' = IF hb_count > 0 THEN Min(hb_min_gap, since_hb) ELSE hb_min_gap
    /\ since_hb' = 0
    /\ UNCHANGED manifest

\* ------------------------------------------------------------ iter_messages
\* lines 300-301, run by the first next() on the generator
IterMessages(timeout) ==
    /\ pc = "idle"
    /\ iter.state # "active"
    /\ IF ~is_running
       THEN /\ iter' = [state |-> "raised", timeout |-> timeout,
                         gen |-> IF process = None THEN 0 ELSE The(process),
                         first |-> Len(yielded)]
            /\ last_call' = Raised("next", "NotRunning")
       ELSE /\ iter' = [state |-> "active", timeout |-> timeout, gen |-> The(process),
                         first |-> Len(yielded)]
            /\ UNCHANGED last_call
    /\ UNCHANGED <<sessionVars, diag, childVars, threadVars, pc, caller_elapsed, historyVars>>

\* lines 310-311: the sentinel ends the sequence
IterSentinel ==
    /\ iter' = [iter EXCEPT !.state = "ended"]
    /\ last_call' = Raised("next", "StopIteration")
    /\ UNCHANGED <<stderr_queue, idle, banner, banner_request_id, yielded>>

\* lines 313-315: an empty line is skipped
IterBlank == UNCHANGED <<iter, last_call, stderr_queue, idle, banner, banner_request_id, yielded>>

\* a decode error that escapes the generator
IterDecodeErrorRaise(stripped) ==
    /\ iter' = [iter EXCEPT !.state = "raised"]
    /\ last_call' = Raised("next", "JSONDecodeError")
    /\ UNCHANGED <<stderr_queue, idle, banner, banner_request_id, yielded>>

\* lines 319-328: a line that fails to decode becomes a diagnostic
IterDecodeError(stripped) ==
    /\ stderr_queue' = Append(stderr_queue, Some(ProtocolDiagnostic(stripped)))
    /\ UNCHANGED <<iter, last_call, idle, banner, banner_request_id, yielded>>

\* a handshake taken to be pending at all times
BannerPendingAlways == TRUE

\* line 332, left operand: a handshake is pending
BannerPending == banner_request_id # None

\* line 332, right operand: message.get("id") == self._banner_request_id
IsBannerResponse(message) == message.id = banner_request_id

\* line 332 on a decoded value that is no dict: message.get raises AttributeError
IterAttributeError ==
    /\ iter' = [iter EXCEPT !.state = "raised"]
    /\ last_call' = Raised("next", "AttributeError")
    /\ UNCHANGED <<stderr_queue, banner, banner_request_id, yielded>>

\* the handshake response cached and passed on to the caller as well
IterBannerAndYield(message) ==
    /\ banner' = Some(BannerOf(message))
    /\ banner_request_id' = None
    /\ yielded' = Append(yielded, message)
    /\ last_call' = Returned("next")
    /\ UNCHANGED <<iter, stderr_queue>>

\* lines 333-339: the handshake response is cached and not yielded
IterBanner(message) ==
    /\ banner' = Some(BannerOf(message))
    /\ banner_request_id' = None
    /\ UNCHANGED <<iter, last_call, stderr_queue, yielded>>

\* a decoded message yielded and reported as a protocol diagnostic as well
IterYieldReported(message) ==
    /\ yielded' = Append(yielded, message)
    /\ last_call' = Returned("next")
    /\ stderr_queue' = Append(stderr_queue, Some(ProtocolDiagnostic(<<message.repr>>)))
    /\ UNCHANGED <<iter, banner, banner_request_id>>

\* line 341
IterYield(message) ==
    /\ yielded' = Append(yielded, message)
    /\ last_call' = Returned("next")
    /\ UNCHANGED <<iter, stderr_queue, banner, banner_request_id>>

\* lines 303-341: one entry taken from the stdout queue
IterTake ==
    /\ pc = "idle"
    /\ iter.state = "active"
    /\ stdout_queue # <<>>
    /\ stdout_queue' = Tail(stdout_queue)
    /\ taken' = Append(taken, Head(stdout_queue))
    /\ LET line == Head(stdout_queue)
           stripped == Strip(The(line))
           message == JsonLoads(stripped)
       IN IF line = None THEN IterSentinel
          ELSE IF stripped = <<>> THEN IterBlank
          ELSE IF message.t = "JSONDecodeError" THEN IterDecodeError(stripped)
          ELSE /\ idle' = 0
               /\ IF BannerPending /\ message.t # "dict" THEN IterAttributeError
                  ELSE IF BannerPending /\ IsBannerResponse(message) THEN IterBanner(message)
                  ELSE IterYield(message)
    /\ UNCHANGED <<process, stop_event, id_counter, heartbeat_interval, heartbeat_timeout, diag,
                   childVars, threadVars, pc, caller_elapsed, sent, written, hb_count, hb_min_gap, since_hb, manifest>>

\* lines 304-308 and 391-396: the queue get timed out; the heartbeat check returns
\* at once or reads the elapsed time, and the loop goes on
IterTimeout ==
    /\ pc = "idle"
    /\ iter.state = "active"
    /\ iter.timeout # None
    /\ stdout_queue = <<>>
    /\ IF HeartbeatDue(idle)
       THEN /\ caller_elapsed' = idle
            /\ pc' = "heartbeat_emit"
       ELSE UNCHANGED <<caller_elapsed, pc>>
    /\ UNCHANGED <<sessionVars, diag, childVars, threadVars, last_call, iter, historyVars>>

\* ... and publishes
IterEmitHeartbeat ==
    /\ pc = "heartbeat_emit"
    /\ EmitHeartbeat(caller_elapsed)
    /\ pc' = "idle"
    /\ UNCHANGED <<process, stop_event, stdout_queue, id_counter, banner_request_id, banner,
                   heartbeat_interval, heartbeat_timeout, diag, childVars, threadVars, last_call,
                   iter, caller_elapsed, sent, written, taken, yielded>>

\* ---------------------------------------------------- iter_stderr_diagnostics
\* the generator is created and pulled, by whichever thread collects diagnostics
IterStderrDiagnostics ==
    /\ diag.state # "active"
    /\ diag' = [diag EXCEPT !.state = "active"]
    /\ UNCHANGED <<sessionVars, childVars, threadVars, callerVars, historyVars>>

\* an entry is taken, and a diagnostic taken behind a sentinel is dropped
DiagTakeDiscards ==
    /\ diag.state = "active"
    /\ stderr_queue # <<>>
    /\ LET payload == Head(stderr_queue)
       IN IF payload = None
          THEN /\ stderr_queue' = <<>>
               /\ diag' = IF ~is_running THEN [diag EXCEPT !.state = "ended"] ELSE diag
          ELSE /\ stderr_queue' = Tail(stderr_queue)
               /\ diag' = [diag EXCEPT !.yielded = Append(@, The(payload))]
    /\ UNCHANGED <<process, stop_event, stdout_queue, id_counter, banner_request_id, banner,
                   idle, heartbeat_interval, heartbeat_timeout, childVars, threadVars,
                   callerVars, historyVars>>

\* an entry is taken, and a sentinel always ends the sequence
DiagTakeSentinelEnds ==
    /\ diag.state = "active"
    /\ stderr_queue # <<>>
    /\ stderr_queue' = Tail(stderr_queue)
    /\ LET payload == Head(stderr_queue)
       IN diag' = IF payload = None
                  THEN [diag EXCEPT !.state = "ended"]
                  ELSE [diag EXCEPT !.yielded = Append(@, The(payload))]
    /\ UNCHANGED <<process, stop_event, stdout_queue, id_counter, banner_request_id, banner,
                   idle, heartbeat_interval, heartbeat_timeout, childVars, threadVars,
                   callerVars, historyVars>>

\* lines 347, 355-360: an entry is taken; a sentinel ends the sequence only when
\* the child is not running and the queue is empty, a diagnostic is yielded
DiagTake ==
    /\ diag.state = "active"
    /\ stderr_queue # <<>>
    /\ stderr_queue' = Tail(stderr_queue)
    /\ LET payload == Head(stderr_queue)
       IN diag' = IF payload = None
                  THEN IF ~is_running /\ Tail(stderr_queue) = <<>>
                       THEN [diag EXCEPT !.state = "ended"]
                       ELSE diag
                  ELSE [diag EXCEPT !.yielded = Append(@, The(payload))]
    /\ UNCHANGED <<process, stop_event, stdout_queue, id_counter, banner_request_id, banner,
                   idle, heartbeat_interval, heartbeat_timeout, childVars, threadVars,
                   callerVars, historyVars>>

\* lines 348-353: the get timed out on an empty queue; the sequence ends when the
\* child is not running or when the stop signal is set, else the get is retried
DiagTimeout ==
    /\ diag.state = "active"
    /\ stderr_queue = <<>>
    /\ ~is_running \/ stop_event
    /\ diag' = [diag EXCEPT !.state = "ended"]
    /\ UNCHANGED <<sessionVars, childVars, threadVars, callerVars, historyVars>>

\* ------------------------------------------------------- _heartbeat_monitor
\* line 386: _stop_event.wait(heartbeat_interval) returned True
MonitorStopped(g) ==
    /\ monitor[g].pc = "wait"
    /\ stop_event
    /\ monitor' = [monitor EXCEPT ![g].pc = "done"]
    /\ UNCHANGED <<sessionVars, diag, childVars, out_reader, err_reader, callerVars, historyVars>>

\* lines 386-396: the wait timed out; leave when not running, else read the elapsed time
MonitorWake(g) ==
    /\ monitor[g].pc = "wait"
    /\ ~stop_event
    /\ monitor[g].timer = 0
    /\ monitor' = [monitor EXCEPT ![g] =
                      IF ~is_running THEN [@ EXCEPT !.pc = "done"]
                      ELSE IF HeartbeatDue(idle) THEN [@ EXCEPT !.pc = "emit", !.elapsed = idle]
                      ELSE [@ EXCEPT !.timer = The(heartbeat_interval)]]
    /\ UNCHANGED <<sessionVars, diag, childVars, out_reader, err_reader, callerVars, historyVars>>

\* lines 397-405, then back to the wait
MonitorEmit(g) ==
    /\ monitor[g].pc = "emit"
    /\ EmitHeartbeat(monitor[g].elapsed)
    /\ monitor' = [monitor EXCEPT ![g] =
                      [pc |-> "wait", timer |-> The(heartbeat_interval), elapsed |-> 0]]
    /\ UNCHANGED <<process, stop_event, stdout_queue, id_counter, banner_request_id, banner,
                   heartbeat_interval, heartbeat_timeout, diag, childVars, out_reader, err_reader,
                   callerVars, sent, written, taken, yielded>>

\* ------------------------------------------------------------------- time
\* one unit of time passes
Tick ==
    /\ idle' = Min(idle + 1, MaxIdle)
    /\ since_hb' = Min(since_hb + 1, MaxIdle)
    /\ monitor' = [g \in Gens |->
                      IF monitor[g].pc = "wait"
                      THEN [monitor[g] EXCEPT !.timer = Max(@ - 1, 0)]
                      ELSE monitor[g]]
    /\ UNCHANGED <<process, stop_event, stdout_queue, stderr_queue, id_counter,
                   banner_request_id, banner, heartbeat_interval, heartbeat_timeout, diag, childVars,
                   out_reader, err_reader, callerVars, sent, written, taken, yielded, hb_count, hb_min_gap, manifest>>

\* one unit of time passes in which child g writes a line on its stdout
TickWrite(g, line) ==
    /\ child[g] = "alive"
    /\ ~out_eof[g]
    /\ out_reader[g] # "done"
    /\ Len(written[g]) < MaxLines
    /\ out_pipe' = [out_pipe EXCEPT ![g] = Append(@, line)]
    /\ written' = [written EXCEPT ![g] = Append(@, line)]
    /\ idle' = Min(idle + 1, MaxIdle)
    /\ since_hb' = Min(since_hb + 1, MaxIdle)
    /\ monitor' = [h \in Gens |->
                      IF monitor[h].pc = "wait"
                      THEN [monitor[h] EXCEPT !.timer = Max(@ - 1, 0)]
                      ELSE monitor[h]]
    /\ UNCHANGED <<process, stop_event, stdout_queue, stderr_queue, id_counter,
                   banner_request_id, banner, heartbeat_interval, heartbeat_timeout, diag,
                   gen, child, stdin_closed, signals, out_eof, err_pipe, err_eof, err_written,
                   out_reader, err_reader, callerVars, sent, taken, yielded, hb_count, hb_min_gap, manifest>>

\* ------------------------------------------------------------ specifications
Child ==
    \E g \in Gens :
        \/ \E line \in Lines : ChildWrite(g, line)
        \/ ChildWriteErr(g)
        \/ ChildCloseStdout(g)
        \/ ChildExit(g)

Readers ==
    \E g \in Gens :
        \/ StdoutReadLine(g)
        \/ StdoutReadEof(g)
        \/ StderrReadLine(g)
        \/ StderrReadEof(g)
        \/ StdoutReadError(g)
        \/ StderrReadError(g)

Monitors == \E g \in Gens : MonitorStopped(g) \/ MonitorWake(g) \/ MonitorEmit(g)

Start == StartNoop \/ StartSpawn \/ StartClear \/ StartThreads \/ StartHandshake \/ StartHeartbeat

Stop == StopCall \/ StopStdin \/ StopTerminate \/ StopWaitExited \/ StopKill \/ StopJoin \/ StopRelease

Send == \E id_override \in {None} \cup {Some(i) : i \in OverrideIds} : SendCommand(id_override)

Diagnostics == IterStderrDiagnostics \/ DiagTake \/ DiagTimeout

Iterate == (\E timeout \in {None, Some(1)} : IterMessages(timeout)) \/ IterTake \/ IterTimeout \/ IterEmitHeartbeat

\* The whole program: every operation, thread and child step.
Init == \E interval \in HeartbeatArgs, timeout \in HeartbeatArgs : InitWith(interval, timeout)

Next ==
    \/ Start \/ Stop \/ Send \/ DescribeSession \/ Iterate \/ Diagnostics
    \/ Child \/ Readers \/ Monitors \/ Tick

Spec == Init /\ [][Next]_vars

\* Requests: a session without heartbeat whose caller starts, sends, stops and
\* restarts it while the child may exit; the child writes nothing.
InitSend == InitWith(None, None)

NextSend ==
    \/ Start
    \/ Stop
    \/ Send
    \/ \E g \in Gens : ChildExit(g)

SpecSend == InitSend /\ [][NextSend]_vars

\* Two callers: as Requests, with a second thread that calls send_command while
\* the caller thread is inside stop().
NextTwoCallers ==
    \/ Start
    \/ Stop
    \/ Send
    \/ \E id_override \in {None} \cup {Some(i) : i \in OverrideIds} : SendDuringStop(id_override)
    \/ \E g \in Gens : ChildExit(g)

SpecTwoCallers == InitSend /\ [][NextTwoCallers]_vars

\* Shutdown: a session without heartbeat whose caller starts, stops and restarts
\* it; the child exits when it likes or not at all, and each reader thread ends
\* at the end of its stream or stays blocked.  The caller thread, once in
\* stop(), goes on running it.
StopSteps ==
    StopStdin \/ StopTerminate \/ StopWaitExited \/ StopKill \/ StopJoin \/ StopRelease

NextStop ==
    \/ Start
    \/ StopCall
    \/ StopSteps
    \/ \E g \in Gens : ChildExit(g)
    \/ \E g \in Gens : StdoutReadEof(g)
    \/ \E g \in Gens : StderrReadEof(g)

SpecStop == InitSend /\ [][NextStop]_vars /\ WF_vars(StopSteps)

\* Restart: a session without heartbeat whose caller starts, iterates, stops and,
\* only once stop() has returned, starts again, while each child answers the
\* handshake and writes a note, each at most once, and exits when it likes.
RestartLines == {BannerLine, NoteLine}

WrittenBy(g) == {written[g][k] : k \in 1..Len(written[g])}

NextRestart ==
    \/ process = None /\ StartSpawn
    \/ StartClear
    \/ StartThreads
    \/ StartHandshake
    \/ StartHeartbeat
    \/ Stop
    \/ gen > 0 /\ IterMessages(None)
    \/ IterTake
    \/ \E g \in Gens : \E line \in RestartLines \ WrittenBy(g) : ChildWrite(g, line)
    \/ \E g \in Gens : ChildExit(g)
    \/ \E g \in Gens : StdoutReadLine(g)
    \/ \E g \in Gens : StdoutReadEof(g)

SpecRestart == InitSend /\ [][NextRestart]_vars

\* Description: one child of a session without heartbeat answers the handshake
\* and writes a note, each at most once, and exits when it likes, while the
\* caller starts, iterates, stops and asks for the description between its
\* other calls.
NextDescribe ==
    \/ gen = 0 /\ StartSpawn
    \/ StartNoop
    \/ StartClear
    \/ StartThreads
    \/ StartHandshake
    \/ StartHeartbeat
    \/ Stop
    \/ DescribeSession
    \/ gen > 0 /\ IterMessages(None)
    \/ IterTake
    \/ \E g \in Gens : \E line \in RestartLines \ WrittenBy(g) : ChildWrite(g, line)
    \/ \E g \in Gens : ChildExit(g)
    \/ \E g \in Gens : StdoutReadLine(g)
    \/ \E g \in Gens : StdoutReadEof(g)

SpecDescribe == InitSend /\ [][NextDescribe]_vars

\* Scope: the session is used in one with statement.  __enter__ (lines 129-131)
\* is start(); when it raises, the statement is left without __exit__; when it
\* returns, the body sends requests, and __exit__ (lines 133-134) is stop().
EnterFailed == last_call.op = "start" /\ last_call.raised # "none"

InBody == pc = "idle" /\ process # None /\ last_call.op \in {"start", "send"} /\ ~EnterFailed

NextScope ==
    \/ gen = 0 /\ StartSpawn
    \/ StartClear
    \/ StartThreads
    \/ StartHandshake
    \/ StartHeartbeat
    \/ InBody /\ Send
    \/ InBody /\ StopCall
    \/ StopSteps
    \/ \E g \in Gens : ChildExit(g)
    \/ \E g \in Gens : StdoutReadEof(g)
    \/ \E g \in Gens : StderrReadEof(g)

SpecScope == InitSend /\ [][NextScope]_vars

\* Diagnostics: a session without heartbeat whose caller starts, stops and
\* restarts it, while a second thread, started on a running session, collects
\* the diagnostics (as the collector thread of _run_godot does) and each child
\* writes to its stderr and exits when it likes.
NextCollector ==
    \/ Start
    \/ Stop
    \/ (pc = "idle" /\ is_running) /\ IterStderrDiagnostics
    \/ DiagTake
    \/ DiagTimeout
    \/ \E g \in Gens : ChildWriteErr(g)
    \/ \E g \in Gens : ChildExit(g)
    \/ \E g \in Gens : StderrReadLine(g)
    \/ \E g \in Gens : StderrReadEof(g)

SpecCollector == InitSend /\ [][NextCollector]_vars

\* Drain: a session without heartbeat started once and stopped around a child
\* that writes lines on stderr and lines that are no JSON on stdout, which the
\* caller takes from the message sequence; the diagnostics are collected by a
\* sequence that is begun before or after the stop(). The caller inside stop()
\* goes on and the collector is scheduled.
NextDrain ==
    \/ gen = 0 /\ StartSpawn
    \/ StartClear
    \/ StartThreads
    \/ StartHandshake
    \/ StartHeartbeat
    \/ Stop
    \/ gen > 0 /\ IterStderrDiagnostics
    \/ DiagTake
    \/ DiagTimeout
    \/ gen > 0 /\ IterMessages(None)
    \/ IterTake
    \/ \E g \in Gens : ChildWrite(g, BadLine)
    \/ \E g \in Gens : StdoutReadLine(g)
    \/ \E g \in Gens : ChildWriteErr(g)
    \/ \E g \in Gens : ChildExit(g)
    \/ \E g \in Gens : StderrReadLine(g)
    \/ \E g \in Gens : StderrReadEof(g)

FairDrain == WF_vars(StopSteps) /\ WF_vars(DiagTake) /\ WF_vars(DiagTimeout)

SpecDrain == InitSend /\ [][NextDrain]_vars /\ FairDrain

\* the steps of start() after the spawn (lines 174-204)
StartSteps == StartClear \/ StartThreads \/ StartHandshake \/ StartHeartbeat

\* ------------------------------------- codex_run_manifest_tests.py, one attempt
\* MANIFEST_GROUP_SCRIPTS (lines 274-278), its keys in order
ManifestGroups == <<"generator_core", "diagnostics", "platform_gui">>

\* the return code of a group's worker as Popen.wait() reports it (line 310):
\* the exit status, or minus the signal number of a worker ended by a signal
ReturnCodes == (0 - MaxReturnCode)..MaxReturnCode

\* _execute_attempt, lines 451-457: the groups to run and the aggregate at 0
ExecuteAttempt(group) ==
    /\ manifest.pc = "none"
    /\ manifest' = [pc |-> "groups",
                    groups_to_run |-> IF group # None THEN <<The(group)>> ELSE ManifestGroups,
                    exit_codes |-> <<>>,
                    aggregated_exit_code |-> 0]
    /\ UNCHANGED <<sessionVars, childVars, threadVars, callerVars, diag, sent, written, taken,
                   yielded, hb_count, hb_min_gap, since_hb>>

\* line 484
Aggregate(aggregated_exit_code, exit_code) == Max(aggregated_exit_code, exit_code)

\* lines 469-484: the next group's worker is run and returns exit_code
RunGroup(exit_code) ==
    /\ manifest.pc = "groups"
    /\ Len(manifest.exit_codes) < Len(manifest.groups_to_run)
    /\ manifest' = [manifest EXCEPT
                      !.exit_codes = Append(@, exit_code),
                      !.aggregated_exit_code = Aggregate(@, exit_code)]
    /\ UNCHANGED <<sessionVars, childVars, threadVars, callerVars, diag, sent, written, taken,
                   yielded, hb_count, hb_min_gap, since_hb>>

\* lines 558-559: after the last group the run is built with the aggregate as
\* its exit_code
AttemptDone ==
    /\ manifest.pc = "groups"
    /\ Len(manifest.exit_codes) = Len(manifest.groups_to_run)
    /\ manifest' = [manifest EXCEPT !.pc = "done"]
    /\ UNCHANGED <<sessionVars, childVars, threadVars, callerVars, diag, sent, written, taken,
                   yielded, hb_count, hb_min_gap, since_hb>>

GroupArguments == {None} \cup {Some(ManifestGroups[i]) : i \in DOMAIN ManifestGroups}

NextManifest ==
    \/ \E group \in GroupArguments : ExecuteAttempt(group)
    \/ \E exit_code \in ReturnCodes : RunGroup(exit_code)
    \/ AttemptDone

SpecManifest == InitSend /\ [][NextManifest]_vars

\* Replay: replay_eventbus_transcript (codex_replay_eventbus.py, lines 102-139)
\* around one child that writes a note, a list and the replay summary, each at
\* most once, and lines on stderr, and exits when it likes.

\* lines 108-109, 122-124 and 131-133: the loop is left at the end of the message
\* sequence or on a summary (an error message is handled alike)
ReplayLoopLeft ==
    \/ iter.state = "ended"
    \/ yielded # <<>> /\ yielded[Len(yielded)].repr = J_summary

\* line 111: message.get on a message that is no object raises AttributeError
ReplayRaised == yielded # <<>> /\ yielded[Len(yielded)].t # "dict"

\* line 104: the message sequence is created inside the with block
ReplayIterate ==
    /\ last_call = Returned("start")
    /\ iter.state = "none"
    /\ IterMessages(Some(1))

\* lines 105-135: one turn of the loop
ReplayNext == ~ReplayLoopLeft /\ ~ReplayRaised /\ (IterTake \/ IterTimeout)

\* line 137: the diagnostics are drained inside the with block
ReplayDrain ==
    /\ pc = "idle"
    /\ ReplayLoopLeft
    /\ diag.state = "none"
    /\ IterStderrDiagnostics

\* line 103, __exit__: stop() once the drain has ended or an exception left the block
ReplayExit ==
    /\ diag.state = "ended" \/ iter.state = "raised" \/ ReplayRaised
    /\ last_call # Returned("stop")
    /\ StopCall

ReplayLines == {NoteLine, ListLine, SummaryLine}

NextReplay ==
    \/ gen = 0 /\ StartSpawn
    \/ StartClear
    \/ StartThreads
    \/ StartHandshake
    \/ StartHeartbeat
    \/ ReplayIterate
    \/ ReplayNext
    \/ ReplayDrain
    \/ DiagTake
    \/ DiagTimeout
    \/ ReplayExit
    \/ StopSteps
    \/ \E g \in Gens : \E line \in ReplayLines \ WrittenBy(g) : ChildWrite(g, line)
    \/ \E g \in Gens : ChildWriteErr(g)
    \/ \E g \in Gens : ChildExit(g)
    \/ \E g \in Gens : StdoutReadLine(g)
    \/ \E g \in Gens : StdoutReadEof(g)
    \/ \E g \in Gens : StderrReadLine(g)
    \/ \E g \in Gens : StderrReadEof(g)

\* the function runs on and the reader threads are scheduled; the child is free
\* to live on
FairReplay ==
    /\ WF_vars(StartSteps)
    /\ WF_vars(ReplayIterate)
    /\ WF_vars(ReplayNext)
    /\ WF_vars(ReplayDrain)
    /\ WF_vars(DiagTake)
    /\ WF_vars(DiagTimeout)
    /\ WF_vars(ReplayExit)
    /\ WF_vars(StopSteps)
    /\ \A g \in Gens :
          /\ WF_vars(StdoutReadLine(g)) /\ WF_vars(StdoutReadEof(g))
          /\ WF_vars(StderrReadLine(g)) /\ WF_vars(StderrReadEof(g))

SpecReplay == InitSend /\ [][NextReplay]_vars /\ FairReplay

\* Threads: a session with heartbeat_interval=1 and heartbeat_timeout=0 whose
\* caller starts, stops and restarts it, while each child is silent and exits
\* when it likes, each reader ends at the end of its stream and each heartbeat
\* monitor runs its loop.
InitThreads == InitWith(Some(1), Some(0))

NextThreads ==
    \/ Start
    \/ Stop
    \/ \E g \in Gens : ChildExit(g)
    \/ \E g \in Gens : StdoutReadEof(g)
    \/ \E g \in Gens : StderrReadEof(g)
    \/ \E g \in Gens : MonitorStopped(g)
    \/ \E g \in Gens : MonitorWake(g)
    \/ Tick

SpecThreads == InitThreads /\ [][NextThreads]_vars

\* Shutdown: as Threads, with every thread scheduled: a caller inside start() or
\* stop() goes on, a reader at the end of its stream reads it, the monitor
\* leaves a wait that has ended, and time passes. The caller is free not to
\* call, and a child is free to live on.
FairShutdown ==
    /\ WF_vars(StartSteps)
    /\ WF_vars(StopSteps)
    /\ WF_vars(Tick)
    /\ \A g \in Gens :
          /\ WF_vars(StdoutReadEof(g))
          /\ WF_vars(StderrReadEof(g))
          /\ WF_vars(MonitorStopped(g))
          /\ WF_vars(MonitorWake(g))

SpecShutdown == InitThreads /\ [][NextThreads]_vars /\ FairShutdown

\* Banner: one child of a session without heartbeat answers the handshake with
\* a mapping, with a string or without a result, or writes a note or a JSON
\* list, each at most once, and exits when it likes, while the caller starts,
\* iterates and stops.
BannerLines == {BannerLine, BannerStrLine, BannerBareLine, NoteLine, ListLine}

NextBanner ==
    \/ gen = 0 /\ StartSpawn
    \/ StartClear
    \/ StartThreads
    \/ StartHandshake
    \/ StartHeartbeat
    \/ Stop
    \/ \E g \in Gens : ChildExit(g)
    \/ gen > 0 /\ IterMessages(None)
    \/ IterTake
    \/ \E g \in Gens : \E line \in BannerLines \ WrittenBy(g) : ChildWrite(g, line)
    \/ \E g \in Gens : StdoutReadLine(g)
    \/ \E g \in Gens : StdoutReadEof(g)

SpecBanner == InitSend /\ [][NextBanner]_vars

\* Messages: one child of a session without heartbeat writes lines, closes its
\* stdout and exits when it likes, while the caller, once start() is over,
\* iterates and may stop.
InitMsg == InitWith(None, None)

\* the lines the child writes in this scenario
MsgLines == {BannerLine, PingLine, NoteLine, ListLine, BadLine, BlankLine}

NextMsg ==
    \/ gen = 0 /\ StartSpawn
    \/ StartClear
    \/ StartThreads
    \/ StartHandshake
    \/ StartHeartbeat
    \/ Stop
    \/ gen > 0 /\ IterMessages(None)
    \/ IterTake
    \/ \E g \in Gens : \E line \in MsgLines : ChildWrite(g, line)
    \/ \E g \in Gens : ChildCloseStdout(g)
    \/ \E g \in Gens : ChildExit(g)
    \/ \E g \in Gens : StdoutReadLine(g)
    \/ \E g \in Gens : StdoutReadEof(g)

SpecMsg == InitMsg /\ [][NextMsg]_vars

\* Heartbeats: a session with any heartbeat arguments around one child that
\* stays silent; time passes and the caller may iterate with a timeout.
NextHeartbeat ==
    \/ gen = 0 /\ StartSpawn
    \/ StartClear
    \/ StartThreads
    \/ StartHandshake
    \/ StartHeartbeat
    \/ gen > 0 /\ IterMessages(Some(1))
    \/ IterTimeout
    \/ IterEmitHeartbeat
    \/ \E g \in Gens : ChildExit(g)
    \/ \E g \in Gens : MonitorWake(g)
    \/ \E g \in Gens : MonitorEmit(g)
    \/ Tick

\* Threads are scheduled and time passes; the caller is free not to call.
FairHeartbeat ==
    /\ WF_vars(Tick)
    /\ WF_vars(IterTimeout)
    /\ WF_vars(IterEmitHeartbeat)
    /\ \A g \in Gens : WF_vars(MonitorWake(g)) /\ WF_vars(MonitorEmit(g))

SpecHeartbeat == Init /\ [][NextHeartbeat]_vars /\ FairHeartbeat

\* Chatty: a session with heartbeat_interval=1 and heartbeat_timeout=2 around one
\* child that writes a note in every unit of time; the reader reads, the monitor
\* runs, and the caller may or may not iterate over the messages.
InitChatty == InitWith(Some(1), Some(2))

NextChatty ==
    \/ gen = 0 /\ StartSpawn
    \/ StartClear
    \/ StartThreads
    \/ StartHandshake
    \/ StartHeartbeat
    \/ gen > 0 /\ IterMessages(None)
    \/ IterTake
    \/ \E g \in Gens : TickWrite(g, NoteLine)
    \/ \E g \in Gens : StdoutReadLine(g)
    \/ \E g \in Gens : MonitorWake(g)
    \/ \E g \in Gens : MonitorEmit(g)

SpecChatty == InitChatty /\ [][NextChatty]_vars

\* Channels: a session with no monitor, whose heartbeat_timeout is the longest
\* silence measured, around one child that writes a note and a line that is no
\* JSON on stdout, each at most once, and lines on stderr; the caller iterates
\* with a timeout.
InitChannels == InitWith(None, Some(MaxIdle))

ChannelLines == {NoteLine, BadLine}

NextChannels ==
    \/ gen = 0 /\ StartSpawn
    \/ StartClear
    \/ StartThreads
    \/ StartHandshake
    \/ StartHeartbeat
    \/ gen > 0 /\ IterMessages(Some(1))
    \/ IterTake
    \/ IterTimeout
    \/ IterEmitHeartbeat
    \/ \E g \in Gens : \E line \in ChannelLines \ WrittenBy(g) : ChildWrite(g, line)
    \/ \E g \in Gens : ChildWriteErr(g)
    \/ \E g \in Gens : ChildExit(g)
    \/ \E g \in Gens : StdoutReadLine(g)
    \/ \E g \in Gens : StdoutReadEof(g)
    \/ \E g \in Gens : StderrReadLine(g)
    \/ \E g \in Gens : StderrReadEof(g)
    \/ Tick

SpecChannels == InitChannels /\ [][NextChannels]_vars

\* Readers: a session without heartbeat whose caller starts it once and stops
\* it; the child writes a note on stdout and lines on stderr and exits when it
\* likes; each reader reads lines, meets the end of its stream, observes the
\* stop signal or fails in a read.
ReaderLines == {NoteLine}

NextReaders ==
    \/ gen = 0 /\ StartSpawn
    \/ StartClear
    \/ StartThreads
    \/ StartHandshake
    \/ StartHeartbeat
    \/ Stop
    \/ \E g \in Gens : \E line \in ReaderLines \ WrittenBy(g) : ChildWrite(g, line)
    \/ \E g \in Gens : ChildWriteErr(g)
    \/ \E g \in Gens : ChildExit(g)
    \/ \E g \in Gens : StdoutReadLine(g)
    \/ \E g \in Gens : StdoutReadEof(g)
    \/ \E g \in Gens : StdoutReadError(g)
    \/ \E g \in Gens : StderrReadLine(g)
    \/ \E g \in Gens : StderrReadEof(g)
    \/ \E g \in Gens : StderrReadError(g)

SpecReaders == InitSend /\ [][NextReaders]_vars

\* ------------------------------------------------------------------ claims

\* C1 as stated: every identifier send_command returns, with or without
\* id_override, is greater than every identifier returned earlier to the same child.
C1_EveryIdExceedsEarlier ==
    \A i, j \in 1..Len(sent) :
        (i < j /\ sent[i].gen = sent[j].gen) => sent[j].id > sent[i].id

\* C1 amended: every identifier send_command returns for a call without
\* id_override is greater than (so distinct from) every identifier returned
\* earlier, explicit or auto-assigned.
C1_AutoIdExceedsEarlier ==
    \A i, j \in 1..Len(sent) :
        (i < j /\ sent[j].auto) => sent[j].id > sent[i].id

\* an auto-assigned 5 was returned after the caller's explicit 4
C1_Witness ==
    \E i, j \in 1..Len(sent) :
        /\ i < j
        /\ ~sent[i].auto /\ sent[i].id = 4 /\ sent[i].method = "call"
        /\ sent[j].auto /\ sent[j].id = 5

\* C2: the identifier the next send_command without id_override would return
\* is greater than every identifier used so far, the handshake's 0 and the
\* caller's overrides included.
C2_NextAutoIdAboveAllUsed ==
    \A i \in 1..Len(sent) : RequestId(None) > sent[i].id

\* after the handshake and an explicit 4 the counter stands at 5
C2_Witness ==
    /\ id_counter = 5
    /\ \E i, j \in 1..Len(sent) :
        /\ sent[i].method = BannerMethod /\ sent[i].id = 0
        /\ ~sent[j].auto /\ sent[j].id = 4 /\ sent[j].method = "call"

\* ---- helpers of the claims about messages
\* the decoded value of a queue entry or of a raw line
Message(entry) == JsonLoads(Strip(The(entry)))
Blank(entry) == entry # None /\ Strip(The(entry)) = <<>>
Undecodable(entry) == entry # None /\ ~Blank(entry) /\ Message(entry).t = "JSONDecodeError"
Decodes(entry) == entry # None /\ ~Blank(entry) /\ Message(entry).t # "JSONDecodeError"
NonDict(entry) == Decodes(entry) /\ Message(entry).t # "dict"

MapSeq(seq, Op(_)) == [i \in 1..Len(seq) |-> Op(seq[i])]
StrippedText(entry) == Strip(The(entry))
DiagnosticText(d) == The(d).text

ProtocolDiagnostics ==
    SelectSeq(stderr_queue,
              LAMBDA d : d # None /\ The(d).stream = "stdout" /\ The(d).level = "protocol")

\* what the message sequence is said to yield for the lines a child wrote: every
\* line that decodes, but the first one with id 0 while the handshake is pending
RECURSIVE ExpectedYield(_, _)
ExpectedYield(lines, pending) ==
    IF lines = <<>> THEN <<>>
    ELSE LET entry == Some(RStripNewline(Head(lines)))
         IN IF ~Decodes(entry) THEN ExpectedYield(Tail(lines), pending)
            ELSE IF pending /\ Message(entry).id = Some(0)
            THEN ExpectedYield(Tail(lines), FALSE)
            ELSE <<Message(entry)>> \o ExpectedYield(Tail(lines), pending)

HandshakeSent == \E i \in 1..Len(sent) : sent[i].method = BannerMethod

\* C3 as stated, for a session that was not stopped: once the message sequence
\* is over, it has yielded every line of the child that decodes and is not the
\* pending handshake response, once each and in the order written.
C3_EveryDecodedLineYielded ==
    (HandshakeSent /\ ~stop_event /\ iter.state \in {"ended", "raised"})
        => yielded = ExpectedYield(written[1], TRUE)

\* C4: every taken line that fails to decode put exactly one diagnostic with
\* stream "stdout" and level "protocol" carrying its text, in the order taken;
\* nothing was yielded for it, and it left the generator running.
C4_DecodeFailureIsOneDiagnostic ==
    /\ MapSeq(ProtocolDiagnostics, DiagnosticText)
          = MapSeq(SelectSeq(taken, Undecodable), StrippedText)
    /\ Len(yielded) <= Len(SelectSeq(taken, Decodes))
    /\ (taken # <<>> /\ Undecodable(taken[Len(taken)]))
          => (iter.state = "active" /\ last_call.raised # "JSONDecodeError")

\* a line that fails to decode was taken, and a later message was yielded
C4_Witness ==
    /\ Len(ProtocolDiagnostics) = 1
    /\ \E i, j \in 1..Len(taken) :
          i < j /\ Undecodable(taken[i]) /\ Decodes(taken[j]) /\ Message(taken[j]).id = Some(5)
    /\ \E k \in 1..Len(yielded) : yielded[k].id = Some(5)

\* C5 as stated: a taken line that decodes to something other than a dict
\* became a diagnostic, and the generator did not raise on it.
C5_NonDictBecomesDiagnostic ==
    \A i \in 1..Len(taken) :
        NonDict(taken[i])
            => /\ last_call.raised # "AttributeError"
               /\ \E k \in 1..Len(stderr_queue) :
                     stderr_queue[k] # None /\ The(stderr_queue[k]).text = StrippedText(taken[i])

\* C6: when the first line to decode carries the handshake id 0, it is not
\* yielded (what is yielded are exactly the decoded lines taken after it),
\* describe_session reports its banner, and no handshake is pending any more.
C6_HandshakeResponseAbsorbed ==
    \A i \in 1..Len(taken) :
        (/\ Decodes(taken[i])
         /\ \A j \in 1..(i - 1) : ~Decodes(taken[j])
         /\ Message(taken[i]).t = "dict"
         /\ Message(taken[i]).id = Some(0))
            => /\ describe_session.banner = Some(BannerOf(Message(taken[i])))
               /\ banner_request_id = None
               /\ yielded = MapSeq(SelectSeq(SubSeq(taken, i + 1, Len(taken)), Decodes), Message)

\* the handshake response was taken after a line that does not decode, and a
\* later message was yielded
C6_Witness ==
    /\ Len(taken) >= 3
    /\ Undecodable(taken[1])
    /\ Message(taken[2]).id = Some(0)
    /\ Len(yielded) = 1
    /\ describe_session.banner = Some(JDict("{\"ok\":true}"))

\* the child wrote the handshake response and then only well-formed messages
WellFormedRun(lines) ==
    /\ lines # <<>>
    /\ lines[1] = BannerLine
    /\ \A i \in 2..Len(lines) : lines[i] \in {PingLine, NoteLine}

\* C7 as stated: the child wrote the handshake response and k well-formed
\* messages and closed its stdout; once the message sequence is over it has
\* ended normally, has yielded exactly the k messages, and the banner is the
\* handshake result, whenever the child exited.
C7_ScenarioYieldsMessages ==
    (/\ HandshakeSent /\ ~stop_event
     /\ WellFormedRun(written[1]) /\ out_eof[1]
     /\ iter.state \in {"ended", "raised"})
        => /\ iter.state = "ended"
           /\ yielded = MapSeq(Tail(written[1]), LAMBDA l : Message(Some(RStripNewline(l))))
           /\ describe_session.banner = Some(JDict("{\"ok\":true}"))
\* ---- helpers of the claims about heartbeats
HeartbeatDiagnostics ==
    SelectSeq(stderr_queue, LAMBDA d : d # None /\ The(d).stream = "heartbeat")

\* start() has returned normally for the child now held, and stop() was not called
Started ==
    /\ process # None
    /\ \E i \in 1..Len(sent) : sent[i].method = BannerMethod /\ sent[i].gen = The(process)
    /\ pc \notin {"start_heartbeat"}
    /\ ~stop_event

\* the running child has been silent for the heartbeat timeout or longer
Stalled == is_running /\ Truthy(heartbeat_timeout) /\ idle >= The(heartbeat_timeout)

ElapsedAtLeastTimeout ==
    \A k \in 1..Len(HeartbeatDiagnostics) :
        The(HeartbeatDiagnostics[k]).elapsed >= The(heartbeat_timeout)

\* C8 as stated: whenever the running child has been silent for the timeout T,
\* a further heartbeat diagnostic is eventually put (unless the child exits or
\* stop() is called first), and every heartbeat diagnostic reports at least T.
C8_StallEventuallyReported ==
    /\ []ElapsedAtLeastTimeout
    /\ \A n \in 0..(MaxHeartbeats - 1) :
          (Started /\ Stalled /\ hb_count = n)
              ~> (hb_count > n \/ ~is_running \/ stop_event)

\* C8 amended: the same, for a session constructed with a heartbeat interval,
\* whose start() has started the monitor thread.
C8_StallReportedByMonitor ==
    /\ []ElapsedAtLeastTimeout
    /\ \A n \in 0..(MaxHeartbeats - 1) :
          (Started /\ Truthy(heartbeat_interval) /\ Stalled /\ hb_count = n)
              ~> (hb_count > n \/ ~is_running \/ stop_event)

\* the monitor thread of a running, silent child has put a heartbeat diagnostic
C8_Witness ==
    /\ is_running /\ ~stop_event
    /\ iter.state = "none"
    /\ Truthy(heartbeat_interval)
    /\ Len(HeartbeatDiagnostics) >= 1
    /\ The(HeartbeatDiagnostics[1]).elapsed >= The(heartbeat_timeout)

\* C9 as stated: a heartbeat diagnostic is never put within the timeout window
\* opened by the heartbeat diagnostic before it.
C9_OneHeartbeatPerWindow ==
    hb_count >= 2 => hb_min_gap >= The(heartbeat_timeout)

\* ---- helpers of the claim about stop()
\* a step in which stop() returns: at line 211 or after line 235
StopReturns == (StopCall /\ process = None) \/ StopRelease

\* what a caller can observe of the session
Observable ==
    <<process, is_running, describe_session, stdout_queue, stderr_queue, id_counter,
      last_call>>

\* C10: every stop() returns without raising and leaves the session not running
\* with an empty process handle, whether it was never started, running or
\* already stopped; a stop() called right after a stop() changes nothing a
\* caller can observe.
C10_StopIdempotent ==
    [][/\ StopReturns =>
            /\ process' = None
            /\ ~is_running'
            /\ last_call' = Returned("stop")
       /\ (StopCall /\ last_call = Returned("stop")) =>
            /\ StopReturns
            /\ Observable' = Observable]_vars

\* stop() has returned on a session whose running child it terminated
C10_Witness ==
    /\ pc = "idle"
    /\ last_call = Returned("stop")
    /\ gen >= 1
    /\ "terminate" \in signals
    /\ child[gen] = "exited"
    /\ process = None

\* C11: a stop() that finds the child alive when the grace wait ends sends the
\* forced kill, and every stop() on a held process returns: neither the waits
\* nor the joins wait without bound, also when a reader thread never ends.
C11_StopTerminates ==
    /\ [][(pc = "stop_wait" /\ pc' # "stop_wait" /\ child[The(process)] = "alive")
             => ("kill" \in signals' /\ child'[The(process)] = "exited")]_vars
    /\ (pc = "stop_stdin")
           ~> (pc = "idle" /\ last_call = Returned("stop") /\ process = None)

\* stop() has returned after the forced kill while the stdout reader of the
\* stopped child has not ended
C11_Witness ==
    /\ pc = "idle"
    /\ last_call = Returned("stop")
    /\ process = None
    /\ "kill" \in signals
    /\ out_reader[gen] = "running"

\* C12: stop() on a held process sets the stop signal, then closes the stdin,
\* then sends terminate, then (only from the grace wait) kill, then joins, and
\* releases the handle last.
C12_StopOrder ==
    /\ [](stdin_closed => stop_event)
    /\ []("terminate" \in signals => stdin_closed)
    /\ []("kill" \in signals => "terminate" \in signals)
    /\ [](pc \in {"stop_join_stdout", "stop_join_stderr", "stop_join_heartbeat",
                  "stop_release"} => stdin_closed /\ ~is_running)
    /\ [][/\ (~stdin_closed /\ stdin_closed') => (stop_event /\ signals = {})
          /\ ("terminate" \in signals' \ signals) => pc = "stop_terminate"
          /\ ("kill" \in signals' \ signals) => pc = "stop_wait"
          /\ (process # None /\ process' = None) =>
                (pc = "stop_release" /\ stop_event /\ stdin_closed /\ ~is_running)]_vars

\* a stop() that went through every step and is about to release the handle
C12_Witness ==
    /\ pc = "stop_release"
    /\ process # None
    /\ stop_event
    /\ stdin_closed
    /\ signals = {"terminate", "kill"}

\* C13: a start() called on a running session returns at once: no child is
\* spawned, no thread started, no request written, and the pending handshake
\* id, the banner, the id counter and both queues stay as they were.
C13_StartWhileRunningIsNoop ==
    [][(pc = "idle" /\ is_running /\ (StartNoop \/ StartSpawn)) =>
          /\ pc' = "idle"
          /\ last_call' = Returned("start")
          /\ UNCHANGED <<process, gen, child, out_reader, err_reader, monitor, sent,
                         banner_request_id, banner, id_counter, stdout_queue,
                         stderr_queue>>]_vars

\* start() has returned on a session that was running: a request of the caller
\* was written to the child still held and running
C13_Witness ==
    /\ pc = "idle"
    /\ is_running
    /\ last_call = Returned("start")
    /\ \E i \in 1..Len(sent) : sent[i].method # BannerMethod /\ sent[i].gen = The(process)

\* C14 as stated: the session becomes running only in a step of start() and
\* stops being running only in a step of stop().
C14_OnlyStopLeavesRunning ==
    [][/\ (~is_running /\ is_running') => Start
       /\ (is_running /\ ~is_running') => Stop]_vars

\* C14 amended: the process handle is set only by start() and cleared only by
\* stop(), and the session becomes running only through start(); it stops being
\* running when the child held has exited, by itself or killed by stop().
C14_HandleOnlyByStartAndStop ==
    [][/\ (process' # process /\ process' # None) => StartSpawn
       /\ (process # None /\ process' = None) => StopRelease
       /\ (~is_running /\ is_running') => StartSpawn
       /\ (is_running /\ ~is_running') =>
             (process' = process /\ child'[The(process)] = "exited")]_vars

\* the child has exited by itself and the session, never stopped, still holds
\* its handle
C14_Witness ==
    /\ pc = "idle"
    /\ process # None
    /\ child[The(process)] = "exited"
    /\ signals = {}
    /\ ~stdin_closed

\* ---- helpers of the claim about restart
\* the messages of the lines written by the child the generator was started on
\* and by the children spawned after it
WrittenSince(g) ==
    UNION {{Message(Some(RStripNewline(written[h][k]))) : k \in 1..Len(written[h])} :
              h \in {h \in Gens : h >= g}}

\* the handshake request of the child now held has been written
HandshakeSentToHeld ==
    /\ process # None
    /\ \E i \in 1..Len(sent) : sent[i].method = BannerMethod /\ sent[i].gen = The(process)

\* C15 as stated: a session started again behaves as a fresh one: no banner is
\* described while the handshake of the child now held is pending, a message
\* sequence ends only with the end of the stream of a child it was started on,
\* and it yields only messages of the children it was started on.
C15_RestartIsFresh ==
    /\ (HandshakeSentToHeld /\ BannerPending) => describe_session.banner = None
    /\ (iter.state = "ended" /\ iter.gen # 0) =>
          \E h \in Gens : h >= iter.gen /\ out_reader[h] = "done"
    /\ iter.gen # 0 =>
          \A k \in (iter.first + 1)..Len(yielded) : yielded[k] \in WrittenSince(iter.gen)

\* ---- helpers of the claim about the handshake
\* the handshake requests the session wrote to child g
Handshakes(g) == SelectSeq(sent, LAMBDA r : r.method = BannerMethod /\ r.gen = g)

AllHandshakes == SelectSeq(sent, LAMBDA r : r.method = BannerMethod)

\* C16 as stated: over the lifetime of the session object the handshake request
\* is written at most once, and at most one handshake (id 0) is pending.
C16_HandshakeWrittenOnce ==
    /\ Len(AllHandshakes) <= 1
    /\ banner_request_id \in {None, Some(0)}

\* C16 amended: the handshake request is written at most once to each child,
\* always with id 0, and at most one handshake (id 0) is pending.
C16_HandshakeOncePerChild ==
    /\ \A g \in Gens : Len(Handshakes(g)) <= 1
    /\ \A i \in 1..Len(AllHandshakes) : AllHandshakes[i].id = 0
    /\ banner_request_id \in {None, Some(0)}

\* the session was started again and has written the handshake request to its
\* second child as well
C16_Witness ==
    /\ pc = "idle"
    /\ gen >= 2
    /\ Len(Handshakes(1)) = 1
    /\ Len(Handshakes(2)) = 1
    /\ banner_request_id = Some(0)

\* ---- helpers of the claims about failing sends
\* a step that is a call of send_command
SendStep == \E id_override \in {None} \cup {Some(i) : i \in OverrideIds} : SendBody(id_override)

\* C17 as stated: a send_command called while no child is running or while the
\* stdin of the child is closed raises NotRunning and writes nothing.
C17_ClosedStdinIsNotRunning ==
    [][(SendStep /\ (~is_running \/ stdin_closed)) =>
          (last_call' = Raised("send", "NotRunning") /\ sent' = sent)]_vars

\* C18: a send_command whose write to the child fails raises TransportWrite,
\* writes nothing, and leaves the process handle, the threads and the stop
\* signal as they were; a send_command on a running session either writes its
\* request once or raises TransportWrite.
C18_WriteFailureLeavesLifecycle ==
    [][/\ (SendStep /\ last_call' = Raised("send", "TransportWrite")) =>
             /\ sent' = sent
             /\ UNCHANGED <<process, out_reader, err_reader, monitor, stop_event, pc>>
       /\ (SendStep /\ is_running) =>
             \/ last_call' = Raised("send", "TransportWrite") /\ sent' = sent
             \/ last_call' = Returned("send") /\ Len(sent') = Len(sent) + 1]_vars

\* a send_command has failed on a write to a child that went away, and the
\* session still holds its handle
C18_Witness ==
    /\ pc = "idle"
    /\ last_call = Raised("send", "TransportWrite")
    /\ process # None
    /\ child[The(process)] = "exited"
    /\ ~stop_event

\* C19: is_running is true exactly when a process handle is held and that child
\* has not exited: it is false before the first start(), once stop() has
\* returned, and once the child has exited with the handle still held.
C19_RunningIffHeldAndAlive ==
    /\ is_running <=> (process # None /\ child[The(process)] = "alive")
    /\ gen = 0 => ~is_running
    /\ (pc = "idle" /\ last_call = Returned("stop")) => ~is_running
    /\ (process # None /\ child[The(process)] = "exited") => ~is_running

\* a send_command found the session not running while it held the handle of a
\* child that had exited
C19_Witness ==
    /\ pc = "idle"
    /\ last_call = Raised("send", "NotRunning")
    /\ process # None
    /\ child[The(process)] = "exited"
    /\ ~is_running

\* ---- helpers of the claim about the description
\* a response with the handshake id has been taken from the stdout queue
HandshakeResponseTaken ==
    \E k \in 1..Len(taken) :
        /\ Decodes(taken[k])
        /\ Message(taken[k]).t = "dict"
        /\ Message(taken[k]).id = Some(0)

\* C20: describe_session() returns in every lifecycle state and changes no
\* state of the session; the pid it reports is absent exactly when no process
\* handle is held, and the banner it reports is absent until a handshake
\* response has been consumed.
C20_DescribeIsPure ==
    /\ [][DescribeSession =>
             /\ last_call' = Returned("describe")
             /\ UNCHANGED <<process, stop_event, stdout_queue, stderr_queue,
                            banner_request_id, banner, id_counter, idle, pc>>]_vars
    /\ [](describe_session.pid = None <=> process = None)
    /\ [](describe_session.banner # None => HandshakeResponseTaken)
    /\ []((HandshakeSent /\ ~BannerPending) => describe_session.banner # None)

\* the description was asked of a running session that has consumed the
\* handshake response
C20_Witness ==
    /\ last_call = Returned("describe")
    /\ is_running
    /\ describe_session.pid = process
    /\ describe_session.banner # None

\* ---- helpers of the claim about the banner
\* the mapping a handshake response with the given decoded text is cached as
WrappedBanner(message) ==
    IF message.result # None /\ The(message.result).t = "dict"
    THEN The(message.result)
    ELSE [t |-> "dict",
          repr |-> "{\"message\":"
                     \o (IF message.result = None THEN "null" ELSE The(message.result).repr)
                     \o "}"]

\* C21: the cached banner is absent or a mapping; a handshake response is
\* cached as its result when that is a mapping and else as {message: result},
\* null for a missing result, and the step that caches it, and no other,
\* clears the pending handshake id.
C21_BannerIsMapping ==
    /\ [](banner = None \/ The(banner).t = "dict")
    /\ [][(banner' # banner \/ (BannerPending /\ ~BannerPending')) =>
             /\ BannerPending
             /\ banner_request_id' = None
             /\ stdout_queue # <<>>
             /\ banner' = Some(WrappedBanner(Message(Head(stdout_queue))))]_vars

\* a handshake response without a result has been cached
C21_Witness ==
    /\ banner = Some([t |-> "dict", repr |-> "{\"message\":null}"])
    /\ banner_request_id = None

\* ---- helpers of the claim about the scoped context
\* the with statement has been left
ScopeOver == pc = "idle" /\ (EnterFailed \/ last_call = Returned("stop"))

\* C22 as stated: whenever the with statement has been left, also through a
\* start() that raised after spawning the child, stop() has run: the stop
\* signal is set, no process handle is held and no child is alive.
C22_ScopeAlwaysStops ==
    ScopeOver =>
        /\ stop_event
        /\ process = None
        /\ \A g \in Gens : child[g] # "alive"

\* C23 as stated: the diagnostics sequence ends only in a step that finds the
\* child not running and leaves the diagnostics queue empty.
C23_DiagnosticsEndWhenStopped ==
    [][(diag.state = "active" /\ diag'.state = "ended") =>
          (~is_running /\ stderr_queue' = <<>>)]_vars

\* ---- helpers of the claim about the threads
LiveStdoutReaders == {g \in Gens : out_reader[g] = "running"}
LiveStderrReaders == {g \in Gens : err_reader[g] = "running"}
LiveMonitors == {g \in Gens : monitor[g].pc \in {"wait", "emit"}}

\* C24 as stated: at every moment at most one output reader, one error reader
\* and one heartbeat monitor thread of the session is alive.
C24_OneThreadOfEachKind ==
    /\ Cardinality(LiveStdoutReaders) <= 1
    /\ Cardinality(LiveStderrReaders) <= 1
    /\ Cardinality(LiveMonitors) <= 1

\* ---- helpers of the claim about the handshake response on the message queue
\* the entry is the response to the handshake that is pending
PendingResponse(entry) ==
    /\ BannerPending
    /\ Decodes(entry)
    /\ Message(entry).t = "dict"
    /\ Message(entry).id = banner_request_id

PendingResponsesQueued ==
    Len(SelectSeq(stdout_queue, PendingResponse))

\* C25 as stated: in every reachable state the message queue, the queue fed by
\* the output reader, does not contain the raw handshake response line.
C25_QueueNeverHoldsResponse ==
    \A i \in 1..Len(stdout_queue) : ~PendingResponse(stdout_queue[i])

\* C25 amended: the raw handshake response is put on the message queue by the
\* output reader like every other line; when the message sequence takes it from
\* the head of the queue it leaves the queue, ends the pending handshake and
\* nothing is yielded for it.
C25_ResponseLeavesQueueOnTake ==
    [][/\ (BannerPending /\ PendingResponsesQueued' > PendingResponsesQueued) =>
             \E g \in Gens : out_reader[g] = "running" /\ out_pipe'[g] = Tail(out_pipe[g])
       /\ (stdout_queue # <<>> /\ PendingResponse(Head(stdout_queue)) /\ taken' # taken) =>
             /\ stdout_queue' = Tail(stdout_queue)
             /\ ~BannerPending'
             /\ yielded' = yielded]_vars

\* the response was taken while a later line was waiting behind it on the queue
C25_Witness ==
    /\ Len(taken) = 1
    /\ Decodes(taken[1])
    /\ Message(taken[1]).id = Some(0)
    /\ ~BannerPending
    /\ banner # None
    /\ yielded = <<>>
    /\ stdout_queue # <<>>

\* ---- helpers of the claim about the diagnostics queue
StderrKind(d) == d.stream = "stderr" /\ d.level = "error" /\ d.text = RStripNewline(ErrLine)
ProtocolKind(d) ==
    /\ d.stream = "stdout" /\ d.level = "protocol"
    /\ d.text # <<>> /\ JsonLoads(d.text).t = "JSONDecodeError"
HeartbeatKind(d) == d.stream = "heartbeat" /\ d.level = "warning"

DiagnosticKinds == {IF d = None THEN "sentinel" ELSE The(d).stream :
                        d \in {stderr_queue[k] : k \in 1..Len(stderr_queue)}}

\* C26: every entry of the diagnostics queue is a sentinel, a stderr line with
\* level "error", a stdout line that does not decode with level "protocol", or a
\* heartbeat warning; no stdout line that decodes is ever put there.
C26_OnlyDiagnosticsQueued ==
    \A k \in 1..Len(stderr_queue) :
        \/ stderr_queue[k] = None
        \/ StderrKind(The(stderr_queue[k]))
        \/ ProtocolKind(The(stderr_queue[k]))
        \/ HeartbeatKind(The(stderr_queue[k]))

\* the queue holds an entry of each kind after a line that decodes was yielded
C26_Witness ==
    /\ DiagnosticKinds = {"sentinel", "stderr", "stdout", "heartbeat"}
    /\ Len(yielded) = 1

\* ---- helpers of the claim about the sentinel of a reader
Sentinels(queue) == Len(SelectSeq(queue, LAMBDA e : e = None))
DoneStdoutReaders == {g \in Gens : out_reader[g] = "done"}
DoneStderrReaders == {g \in Gens : err_reader[g] = "done"}

\* C27: each reader thread puts exactly one sentinel on its queue, whichever way
\* it leaves (end of stream, stop signal observed, read error); the sentinel is
\* the last entry the reader puts, and with it the reader closes its pipe.
C27_OneSentinelPerReader ==
    /\ [](/\ Sentinels(stdout_queue) = Cardinality(DoneStdoutReaders)
          /\ Sentinels(stderr_queue) = Cardinality(DoneStderrReaders)
          /\ \A g \in DoneStdoutReaders : out_pipe[g] = <<>>
          /\ \A g \in DoneStderrReaders : err_pipe[g] = <<>>)
    /\ [][/\ \A g \in Gens :
               /\ (out_reader[g] = "running" /\ out_reader'[g] # "running") =>
                      (out_reader'[g] = "done" /\ stdout_queue' = Append(stdout_queue, None))
               /\ (err_reader[g] = "running" /\ err_reader'[g] # "running") =>
                      (err_reader'[g] = "done" /\ stderr_queue' = Append(stderr_queue, None))
               /\ out_reader[g] = "done" => out_reader'[g] = "done"
               /\ err_reader[g] = "done" => err_reader'[g] = "done"
          /\ (\A g \in Gens : out_reader[g] # "running") => stdout_queue' = stdout_queue
          /\ (\A g \in Gens : err_reader[g] # "running") => stderr_queue' = stderr_queue]_vars

\* both readers of the first child have left while the child is alive and the
\* stop signal is set, the stdout reader after it had put a line
C27_Witness ==
    /\ 1 \in DoneStdoutReaders /\ 1 \in DoneStderrReaders
    /\ child[1] = "alive" /\ stop_event
    /\ stdout_queue = <<Some(RStripNewline(NoteLine)), None>>

\* C28 as stated: the message sequence, once begun, is over only by taking the
\* sentinel from the message queue; no timeout of the queue get and no line
\* taken (empty, undecodable, handshake response or other) ends it.
C28_EndsOnlyOnSentinel ==
    [][(iter.state = "active" /\ iter'.state # "active") =>
          /\ stdout_queue # <<>>
          /\ Head(stdout_queue) = None
          /\ taken' = Append(taken, None)
          /\ iter'.state = "ended"]_vars

\* C29: while heartbeat_timeout is unset or zero (unset only when the interval is
\* unset as well), no heartbeat diagnostic is put on the diagnostics queue, no
\* thread is about to put one, and the heartbeat check never resets the last
\* activity: the silence measured only grows.
C29_NoHeartbeatWithoutTimeout ==
    /\ [](~Truthy(heartbeat_timeout) =>
            /\ HeartbeatDiagnostics = <<>>
            /\ hb_count = 0
            /\ pc # "heartbeat_emit"
            /\ \A g \in Gens : monitor[g].pc # "emit"
            /\ (heartbeat_timeout = None => heartbeat_interval = None))
    /\ [][~Truthy(heartbeat_timeout) => idle' >= idle]_vars

\* a session with interval 1 and timeout 0: the monitor runs, the caller iterates
\* with a timeout, and the child has been silent for the longest time measured
C29_Witness ==
    /\ heartbeat_timeout = Some(0)
    /\ heartbeat_interval = Some(1)
    /\ monitor[1].pc = "wait"
    /\ iter.state = "active"
    /\ iter.timeout # None
    /\ is_running
    /\ idle = MaxIdle
    /\ stderr_queue = <<>>

\* ---- helpers of the claim about the order of start()
\* this step writes the handshake request and records its id as pending
HandshakeStep ==
    /\ Len(sent') = Len(sent) + 1
    /\ sent'[Len(sent')].method = BannerMethod
    /\ banner_request_id' = Some(0)

\* C30 as stated: when start() sends the handshake request with id 0, the child
\* has been spawned, the stop signal cleared and the two readers started, and
\* the heartbeat thread is already running when an interval is configured.
C30_HandshakeSentLast ==
    [][HandshakeStep =>
          /\ process # None
          /\ ~stop_event
          /\ out_reader[The(process)] # "none"
          /\ err_reader[The(process)] # "none"
          /\ (Truthy(heartbeat_interval) => monitor[The(process)].pc # "none")]_vars

\* ---- helpers of the claim about a sentinel on the diagnostics queue
\* this step is the diagnostics sequence taking a sentinel
DiagTakesSentinel ==
    /\ diag.state = "active"
    /\ stderr_queue # <<>>
    /\ Head(stderr_queue) = None
    /\ stderr_queue' = Tail(stderr_queue)

\* C31 as stated: the diagnostics sequence never ends in the step in which it
\* takes a sentinel from the diagnostics queue; it goes on polling.
C31_SentinelNeverEnds ==
    [][DiagTakesSentinel => diag'.state = "active"]_vars

\* C31 amended: a sentinel taken ends the diagnostics sequence exactly when the
\* child is not running and nothing is left on the queue; taken while the child
\* runs or while entries remain it is skipped, and nothing is yielded for it.
C31_SentinelEndsOnlyWhenDrained ==
    [][DiagTakesSentinel =>
          /\ diag'.yielded = diag.yielded
          /\ (diag'.state = "ended") = (~is_running /\ stderr_queue' = <<>>)
          /\ diag'.state \in {"active", "ended"}]_vars

\* the sentinel of the first child's stderr reader was taken and the sequence
\* goes on, next to a running child
C31_Witness ==
    /\ err_reader[1] = "done"
    /\ stderr_queue = <<>>
    /\ diag.state = "active"
    /\ is_running

\* ---- helpers of the claim about what is absorbed
\* this step is the message sequence taking a line that decodes
TakesDecoded ==
    /\ iter.state = "active"
    /\ stdout_queue # <<>>
    /\ Decodes(Head(stdout_queue))
    /\ taken' = Append(taken, Head(stdout_queue))

TakenMessage == Message(Head(stdout_queue))

\* ... and neither yields it nor raises
Absorbs == TakesDecoded /\ yielded' = yielded /\ iter'.state = "active"

\* C32: a decoded message is absorbed only while a handshake is pending and its
\* id is the pending id; with no handshake pending every decoded message, one
\* with id 0 included, is yielded, and a mapping without the pending id is
\* yielded while the handshake stays pending.
C32_AbsorbedOnlyWhilePending ==
    [][/\ Absorbs =>
             /\ banner_request_id # None
             /\ TakenMessage.id = banner_request_id
             /\ banner_request_id' = None
       /\ (TakesDecoded /\ banner_request_id = None) =>
             /\ yielded' = Append(yielded, TakenMessage)
             /\ UNCHANGED <<banner, banner_request_id>>
       /\ (TakesDecoded /\ TakenMessage.t = "dict" /\ TakenMessage.id # banner_request_id) =>
             /\ yielded' = Append(yielded, TakenMessage)
             /\ UNCHANGED <<banner, banner_request_id>>]_vars

\* after the banner was cached a message with id 0 was yielded, and a note was
\* yielded while the handshake was pending or after
C32_Witness ==
    /\ banner # None
    /\ banner_request_id = None
    /\ \E k \in 1..Len(yielded) : yielded[k].id = Some(0)
    /\ \E k \in 1..Len(yielded) : yielded[k].id = None

\* ---- helpers of the claim about the threads after stop()
ThreadsEnded(g) ==
    /\ out_reader[g] # "running"
    /\ err_reader[g] # "running"
    /\ monitor[g].pc \notin {"wait", "emit"}

C34_NotRunningSendChangesNothing ==
    [][(SendStep /\ last_call' = Raised("send", "NotRunning")) =>
          /\ ~is_running
          /\ RequestId(None)' = RequestId(None)
          /\ UNCHANGED <<id_counter, banner_request_id, banner, stdout_queue, stderr_queue,
                         sent, process, stop_event, childVars, threadVars>>]_vars

\* a send_command raised NotRunning on a stopped session whose counter had been
\* advanced to 5 by an explicit 4
C34_Witness ==
    /\ last_call = Raised("send", "NotRunning")
    /\ process = None
    /\ stop_event
    /\ id_counter = 5

\* ---- helpers of the claim about a start() that raises
StartRaised == pc = "idle" /\ last_call.op = "start" /\ last_call.raised # "none"

\* C35 as stated: after a start() that raised, the session holds no process
\* handle, no reader or heartbeat thread of that attempt is running and no
\* handshake is pending.
C35_StartAllOrNothing ==
    StartRaised =>
        /\ process = None
        /\ out_reader[gen] # "running"
        /\ err_reader[gen] # "running"
        /\ monitor[gen].pc \notin {"wait", "emit"}
        /\ banner_request_id = None

\* C36 as stated, for a child that writes a well-formed line in every unit of
\* time and a timeout of two units: no heartbeat diagnostic is put, whether or
\* not the caller takes the lines from the message sequence.
C36_NoHeartbeatWhileChildWrites ==
    HeartbeatDiagnostics = <<>> /\ hb_count = 0

\* ---- helpers of the claim about the diagnostics after stop()
\* stop() has returned on a session that had been started
Stopped == pc = "idle" /\ last_call = Returned("stop") /\ gen > 0

\* C37: once stop() has returned, a diagnostics sequence takes the entries of
\* the diagnostics queue from its head, yields each diagnostic it takes in that
\* order and drops none, ends only with the queue empty, and does end.
C37_DrainAfterStop ==
    /\ [][(Stopped /\ diag.state = "active" /\ diag' # diag) =>
             \/ /\ stderr_queue # <<>>
                /\ Head(stderr_queue) # None
                /\ stderr_queue' = Tail(stderr_queue)
                /\ diag' = [diag EXCEPT !.yielded = Append(@, The(Head(stderr_queue)))]
             \/ /\ diag' = [diag EXCEPT !.state = "ended"]
                /\ stderr_queue' = <<>>
                /\ stderr_queue = <<>> \/ stderr_queue = <<None>>]_vars
    /\ [][(Stopped /\ diag.state = "active" /\ stderr_queue' # stderr_queue /\ diag' = diag) =>
             \/ /\ stderr_queue # <<>>
                /\ Head(stderr_queue) = None
                /\ stderr_queue' = Tail(stderr_queue)
             \/ /\ Len(stderr_queue') = Len(stderr_queue) + 1
                /\ SubSeq(stderr_queue', 1, Len(stderr_queue)) = stderr_queue]_vars
    /\ (Stopped /\ diag.state = "active") ~> (diag.state = "ended")

\* a sequence has ended after stop() returned with the queue empty, and the
\* last diagnostic it yielded was put behind the sentinel of the stderr reader
C37_Witness ==
    /\ Stopped
    /\ diag.state = "ended"
    /\ diag.yielded = <<StderrDiagnostic(ErrLine), ProtocolDiagnostic(Strip(BadLine))>>
    /\ stderr_queue = <<>>
    /\ err_reader[1] = "done"
    /\ Len(taken) = 1

\* C38 as stated: the step of start() that spawns a child resets the last
\* activity, so the silence the heartbeat check measures begins at the spawn.
C38_SilenceStartsAtSpawn ==
    [][gen' # gen => idle' = 0]_vars

\* C39 as stated: once replay_eventbus_transcript has left its loop, on a
\* summary or at the end of the message sequence, its diagnostics drain ends and
\* the function returns through stop(), also while the child is running.
C39_ReplayReturns ==
    ReplayLoopLeft ~> (pc = "idle" /\ last_call = Returned("stop"))

\* C40 as stated: the exit code of a finished manifest attempt is zero exactly
\* when every group's worker returned zero; a non-zero return code of any
\* group, a negative one of a worker ended by a signal included, makes it
\* non-zero.
C40_NonZeroWhenAGroupFailed ==
    manifest.pc = "done" =>
        (manifest.aggregated_exit_code = 0
            <=> \A i \in DOMAIN manifest.exit_codes : manifest.exit_codes[i] = 0)
====
